---- MODULE Spec2Model ----
(***************************************************************************)
(* The media dubbing worker of niiell/aiweb: one job record of the         *)
(* 'media-jobs' queue and the handler that processes it (extract audio,    *)
(* enhance, transcribe, translate, synthesize, merge, finalize).           *)
(*                                                                         *)
(* Strings are sequences of tokens: a string is the concatenation of its   *)
(* tokens, \o is string concatenation and a prefix test is a test on the   *)
(* leading tokens. The tokens are chosen so that every literal the code    *)
(* tests for ("TRANSLATION error") is a whole number of tokens.            *)
(***************************************************************************)
EXTENDS Integers, Sequences, FiniteSets, TLC

\* Number of ffmpeg 'progress' events delivered while the audio is extracted.
MaxProgressEvents == 2

-----------------------------------------------------------------------------
(* JavaScript values: undefined, strings, booleans, numbers.                *)

Undef == [t |-> "undefined", v |-> ""]

Str(s) == [t |-> "string", v |-> s]

Bool(b) == [t |-> "boolean", v |-> IF b THEN "true" ELSE "false"]

\* A finite number, as the fraction n/d (d > 0) in lowest terms.
Num(n, d) == [t |-> "number", v |-> <<n, d>>]

NaN == [t |-> "nan", v |-> ""]

Infinity == [t |-> "infinity", v |-> ""]

\* An object carrying the fields of a Google Duration.
TimeObject(seconds, nanos) ==
    [t |-> "object", v |-> "", seconds |-> seconds, nanos |-> nanos]

\* JavaScript truthiness.
Truthy(x) ==
    CASE x.t = "undefined" -> FALSE
      [] x.t = "string" -> x.v # ""
      [] x.t = "boolean" -> x.v = "true"
      [] x.t = "number" -> x.v[1] # 0
      [] x.t = "nan" -> FALSE
      [] OTHER -> TRUE

\* a || b
Or(a, b) == IF Truthy(a) THEN a ELSE b

\* o.f, undefined when the object has no such field.
Get(o, f) == IF f \in DOMAIN o THEN o[f] ELSE Undef

Abs(n) == IF n < 0 THEN -n ELSE n

RECURSIVE Gcd(_, _)
Gcd(a, b) == IF b = 0 THEN a ELSE Gcd(b, a % b)

\* The number n/d, d > 0.
Rat(n, d) ==
    IF n = 0 THEN Num(0, 1)
    ELSE IF n < 0 THEN Num(-(Abs(n) \div Gcd(Abs(n), d)), d \div Gcd(Abs(n), d))
    ELSE Num(n \div Gcd(n, d), d \div Gcd(n, d))

IsNumber(x) == x.t \in {"number", "nan", "infinity"}

Finite(x) == x.t = "number"

\* Number(x)
ToNumber(x) ==
    CASE x.t = "number" -> x
      [] x.t = "nan" -> NaN
      [] x.t = "infinity" -> Infinity
      [] x.t = "undefined" -> NaN
      [] x.t = "boolean" -> IF x.v = "true" THEN Num(1, 1) ELSE Num(0, 1)
      [] x.t = "string" ->
            IF x.v = "" THEN Num(0, 1)
            ELSE IF x.v = "1" THEN Num(1, 1)
            ELSE IF x.v = "2" THEN Num(2, 1)
            ELSE NaN
      [] OTHER -> NaN

\* a + b on numbers.
Plus(a, b) ==
    IF a.t = "nan" \/ b.t = "nan" THEN NaN
    ELSE IF a.t = "infinity" \/ b.t = "infinity" THEN Infinity
    ELSE Rat(a.v[1] * b.v[2] + b.v[1] * a.v[2], a.v[2] * b.v[2])

\* a / 1e9 on whole numbers, NaN and Infinity.
DivE9(a) ==
    IF Finite(a) /\ a.v[2] = 1 THEN Rat(a.v[1], 1000000000) ELSE a

\* a <= b on finite numbers.
Leq(a, b) == a.v[1] * b.v[2] <= b.v[1] * a.v[2]

\* String.prototype.toLowerCase on the strings the flags range over.
ToLowerCase(s) ==
    CASE s = "TRUE" -> "true"
      [] s = "True" -> "true"
      [] s = "FALSE" -> "false"
      [] s = "MIX" -> "mix"
      [] s = "Mix" -> "mix"
      [] s = "REPLACE" -> "replace"
      [] OTHER -> s

-----------------------------------------------------------------------------
(* Texts.                                                                  *)

StartsWith(s, p) == Len(s) >= Len(p) /\ SubSeq(s, 1, Len(p)) = p

RECURSIVE Join(_, _)
\* Array.prototype.join: the texts of a sequence separated by sep.
Join(texts, sep) ==
    IF Len(texts) = 0 THEN << >>
    ELSE IF Len(texts) = 1 THEN texts[1]
    ELSE texts[1] \o sep \o Join(Tail(texts), sep)

RECURSIVE TrimStart(_)
TrimStart(s) == IF Len(s) > 0 /\ Head(s) = " " THEN TrimStart(Tail(s)) ELSE s

RECURSIVE TrimEnd(_)
TrimEnd(s) ==
    IF Len(s) > 0 /\ s[Len(s)] = " " THEN TrimEnd(SubSeq(s, 1, Len(s) - 1)) ELSE s

\* String.prototype.trim.
Trim(s) == TrimEnd(TrimStart(s))

\* The message of the Error a failing adapter or media tool throws.
ErrMessages == { <<"timeout">> }

AsrErrorPrefix == <<"ASR error", ":">>

TranslationErrorLiteral == <<"TRANSLATION", " ", "error">>

TranslationErrorPrefix == TranslationErrorLiteral \o <<":">>

\* A dropped prefix: the bare message.
AsrErrorText_NoPrefix(msg) == msg

\* `ASR error: ${err.message}`
AsrErrorText(msg) == AsrErrorPrefix \o <<" ">> \o msg

\* `TRANSLATION error: ${err.message}`
TranslationErrorText(msg) == TranslationErrorPrefix \o <<" ">> \o msg

TranscriptHeader ==
    <<"TRANSCRIPT", "\n", "Source: ", "originalname", "\n",
      "Generated at: ", "iso-date", "\n", "\n">>

\* `TRANSCRIPT\nSource: ${originalname}\nGenerated at: ${iso}\n\n${transcriptText}\n`
TranscriptFull(text) == TranscriptHeader \o text \o <<"\n">>

\* `TRANSLATION MOCK to=${target}\n${text}`
TranslateMock(text, target) ==
    <<"TRANSLATION", " ", "MOCK", " to=", target, "\n">> \o text

\* The fallback to the transcript forgotten.
TtsInput_NoFallback(translatedText, transcriptText) == translatedText

\* The empty translation not treated as missing.
TtsInput_NoEmptyCheck(translatedText, transcriptText) ==
    IF ~StartsWith(translatedText, TranslationErrorLiteral)
    THEN translatedText
    ELSE transcriptText

\* (translatedText && !translatedText.startsWith('TRANSLATION error'))
\*     ? translatedText : transcriptText
TtsInput(translatedText, transcriptText) ==
    IF translatedText # << >> /\ ~StartsWith(translatedText, TranslationErrorLiteral)
    THEN translatedText
    ELSE transcriptText

-----------------------------------------------------------------------------
(* ASR payloads and their normalization.                                   *)

Null == [t |-> "null", v |-> ""]

\* An element of an array that is null, not an object.
IsNull(e) == "t" \in DOMAIN e /\ e.t = "null"

NullPayload ==
    [kind |-> "null", hasText |-> FALSE, text |-> << >>,
     hasSegments |-> FALSE, segments |-> << >>,
     hasResults |-> FALSE, results |-> << >>, stringifies |-> TRUE]

StringPayload(s) ==
    [kind |-> "string", hasText |-> FALSE, text |-> s,
     hasSegments |-> FALSE, segments |-> << >>,
     hasResults |-> FALSE, results |-> << >>, stringifies |-> TRUE]

\* An object with a string `text` and a `segments` array.
ShapeA(text, segments) ==
    [kind |-> "object", hasText |-> TRUE, text |-> text,
     hasSegments |-> TRUE, segments |-> segments,
     hasResults |-> FALSE, results |-> << >>, stringifies |-> TRUE]

\* An object with a `segments` array and no `text`.
ShapeB(segments) ==
    [kind |-> "object", hasText |-> FALSE, text |-> << >>,
     hasSegments |-> TRUE, segments |-> segments,
     hasResults |-> FALSE, results |-> << >>, stringifies |-> TRUE]

\* An object with a `results` array.
ShapeC(results) ==
    [kind |-> "object", hasText |-> FALSE, text |-> << >>,
     hasSegments |-> FALSE, segments |-> << >>,
     hasResults |-> TRUE, results |-> results, stringifies |-> TRUE]

\* An object with none of them.
OtherObject ==
    [kind |-> "object", hasText |-> FALSE, text |-> << >>,
     hasSegments |-> FALSE, segments |-> << >>,
     hasResults |-> FALSE, results |-> << >>, stringifies |-> TRUE]

\* An object with none of them that String() cannot convert (no toString).
BareObject ==
    [kind |-> "object", hasText |-> FALSE, text |-> << >>,
     hasSegments |-> FALSE, segments |-> << >>,
     hasResults |-> FALSE, results |-> << >>, stringifies |-> FALSE]

SegTexts(segments) == [i \in 1..Len(segments) |-> segments[i].text]

\* The payloads transcribe() resolves with.
AsrPayloads ==
    { NullPayload,
      StringPayload(<<"hello", " ", "world">>),
      ShapeA(<< >>, << [text |-> <<"hi">>], [text |-> <<"there">>] >>) }

\* o.f || '' on a text field.
TextField(o, f) == IF f \in DOMAIN o THEN o[f] ELSE << >>

\* s => ({ text: s.text || '', start: Number(s.start || 0),
\*         end: Number(s.end || 0), words: s.words })
SegmentA(s) ==
    [text |-> TextField(s, "text"),
     start |-> ToNumber(Or(Get(s, "start"), Num(0, 1))),
     end |-> ToNumber(Or(Get(s, "end"), Num(0, 1))),
     hasWords |-> "words" \in DOMAIN s,
     words |-> IF "words" \in DOMAIN s THEN s.words ELSE << >>]

\* w.word || w.text || w.token
WordTextB(w) ==
    IF TextField(w, "word") # << >> THEN w.word
    ELSE IF TextField(w, "text") # << >> THEN w.text
    ELSE TextField(w, "token")

\* w => ({ word: ..., start: Number(w.start || w.startTime || 0),
\*         end: Number(w.end || w.endTime || 0) })
WordB(w) ==
    [word |-> WordTextB(w),
     start |-> ToNumber(Or(Or(Get(w, "start"), Get(w, "startTime")), Num(0, 1))),
     end |-> ToNumber(Or(Or(Get(w, "end"), Get(w, "endTime")), Num(0, 1)))]

\* Number(s.start || s.begin || s.seek || 0)
SegmentStartB(s) ==
    ToNumber(Or(Or(Or(Get(s, "start"), Get(s, "begin")), Get(s, "seek")), Num(0, 1)))

\* Number(s.end || (s.start && s.duration
\*                    ? Number(s.start) + Number(s.duration) : 0))
SegmentEndB(s) ==
    ToNumber(Or(Get(s, "end"),
                IF Truthy(Get(s, "start")) /\ Truthy(Get(s, "duration"))
                THEN Plus(ToNumber(Get(s, "start")), ToNumber(Get(s, "duration")))
                ELSE Num(0, 1)))

\* The map callback of the generic segments branch.
SegmentB(s) ==
    [text |-> IF TextField(s, "text") # << >> THEN s.text
              ELSE TextField(s, "transcript"),
     start |-> SegmentStartB(s),
     end |-> SegmentEndB(s),
     hasWords |-> "words" \in DOMAIN s,
     words |-> IF "words" \in DOMAIN s
               THEN [i \in 1..Len(s.words) |-> WordB(s.words[i])]
               ELSE << >>]

GoogleTime_SecondsOnly(x) ==
    IF x.t = "object" THEN ToNumber(Or(x.seconds, Num(0, 1)))
    ELSE IF IsNumber(x) THEN x
    ELSE Num(0, 1)

\* startTime / endTime of a Google word: { seconds, nanos }, or a number.
GoogleTime(x) ==
    IF x.t = "object" /\ (Truthy(x.seconds) \/ Truthy(x.nanos))
    THEN Plus(ToNumber(Or(x.seconds, Num(0, 1))),
              DivE9(ToNumber(Or(x.nanos, Num(0, 1)))))
    ELSE IF IsNumber(x) THEN x
    ELSE Num(0, 1)

\* Array.isArray(result.alternatives) && result.alternatives[0]
HasFirstAlternative(result) ==
    "alternatives" \in DOMAIN result /\ Len(result.alternatives) > 0

RECURSIVE ResultsText(_, _)
\* if (alt.transcript) text += (text ? ' ' : '') + alt.transcript
ResultsText(results, text) ==
    IF results = << >> THEN text
    ELSE IF HasFirstAlternative(Head(results))
            /\ TextField(Head(results).alternatives[1], "transcript") # << >>
    THEN ResultsText(Tail(results),
                     text \o (IF text # << >> THEN <<" ">> ELSE << >>)
                          \o Head(results).alternatives[1].transcript)
    ELSE ResultsText(Tail(results), text)

\* words.push({ word: w.word, start, end })
WordC(w) ==
    [word |-> TextField(w, "word"),
     start |-> GoogleTime(Get(w, "startTime")),
     end |-> GoogleTime(Get(w, "endTime"))]

RECURSIVE ResultsWords(_)
ResultsWords(results) ==
    IF results = << >> THEN << >>
    ELSE IF HasFirstAlternative(Head(results))
            /\ "words" \in DOMAIN Head(results).alternatives[1]
    THEN [i \in 1..Len(Head(results).alternatives[1].words) |->
             WordC(Head(results).alternatives[1].words[i])]
         \o ResultsWords(Tail(results))
    ELSE ResultsWords(Tail(results))

\* w => ({ text: w.word, start, end, words: [{ word, start, end }] })
WordSegment(w) ==
    [text |-> w.word, start |-> w.start, end |-> w.end,
     hasWords |-> TRUE, words |-> <<w>>]

\* A property read on a null element of segments or results: TypeError.
Throws(asrResp) ==
    /\ asrResp.kind = "object"
    /\ \/ asrResp.hasSegments /\ \E i \in 1..Len(asrResp.segments) :
                                     IsNull(asrResp.segments[i])
       \/ ~asrResp.hasSegments /\ asrResp.hasResults
          /\ \E i \in 1..Len(asrResp.results) : IsNull(asrResp.results[i])

Normalized(text, segments) ==
    [threw |-> FALSE, text |-> text, segments |-> segments]

\* normalizeAsrResponse(asrResp): { text, segments }
normalizeAsrResponse(asrResp) ==
    IF asrResp.kind = "null" \/ (asrResp.kind = "string" /\ asrResp.text = << >>)
    THEN Normalized(<< >>, << >>)
    ELSE IF asrResp.kind = "string"
    THEN Normalized(asrResp.text, << >>)
    ELSE IF Throws(asrResp)
    THEN [threw |-> TRUE, text |-> << >>, segments |-> << >>]
    ELSE IF asrResp.hasText /\ asrResp.hasSegments
    THEN Normalized(asrResp.text,
                    [i \in 1..Len(asrResp.segments) |->
                        SegmentA(asrResp.segments[i])])
    ELSE IF asrResp.hasSegments
    THEN Normalized(Trim(Join(SegTexts([i \in 1..Len(asrResp.segments) |->
                                           SegmentB(asrResp.segments[i])]),
                              <<" ">>)),
                    [i \in 1..Len(asrResp.segments) |->
                        SegmentB(asrResp.segments[i])])
    ELSE IF asrResp.hasResults
    THEN Normalized(Trim(ResultsText(asrResp.results, << >>)),
                    [i \in 1..Len(ResultsWords(asrResp.results)) |->
                        WordSegment(ResultsWords(asrResp.results)[i])])
    ELSE IF asrResp.stringifies
    THEN Normalized(<<"[object Object]">>, << >>)
    ELSE Normalized(<< >>, << >>)

\* norm.text || norm.segments.map(s => s.text).join(' ').trim()
TranscriptOf(norm) ==
    IF norm.text # << >> THEN norm.text
    ELSE Trim(Join(SegTexts(norm.segments), <<" ">>))

NoStructured == [defined |-> FALSE, text |-> << >>, segments |-> << >>]

-----------------------------------------------------------------------------
(* The job record, the upload directory and the handler's locals.          *)

VARIABLES
    jobName,        \* job.name
    data,           \* job.data flags: enhance, burnSubtitles, mergeMode
    env,            \* process.env of the worker
    state,          \* queued, active, completed, failed
    progress,       \* job.progress as stored in the queue
    returnvalue,    \* job.returnvalue
    failedReason,   \* job.failedReason
    pc,             \* where the handler is
    files,          \* the files of this job's stem that exist in UPLOAD_DIR
    content,        \* the text of the transcript and translated files
    written,        \* the files this execution wrote
    reports,        \* the values passed to job.updateProgress, in order
    log,            \* the stage starts and resolutions, in order
    lastProgress,   \* lastProgress of the extraction's progress callback
    nEvents,        \* progress events delivered so far
    audioForAsr,    \* the file passed to transcribe
    transcriptText,
    asrStructured,
    translatedText,
    synthCalls,     \* the texts synthesize was called with
    outcome,        \* how each call of this execution ended
    ttsDurationSec,
    mergeStarted,   \* the merge command emitted 'start'
    dubbedCreated,
    retval          \* what the handler returned or threw

\* One call made by the pipeline, or one use of retry(fn, opts).
VARIABLES
    rSite,          \* the call site: a call of the pipeline, or "retry" itself
    rOpts,          \* opts: retries, minDelay, factor (each may be missing)
    rpc,            \* idle, call, wait, returned, thrown
    attempt,        \* attempt of retry
    lastErr,        \* lastErr of retry
    history,        \* how each invocation of fn ended, in order
    slept,          \* the delays passed to wait, in order
    settled         \* what the call site received

retryVars == <<rSite, rOpts, rpc, attempt, lastErr, history, slept, settled>>

\* One call of normalizeAsrResponse.
VARIABLES
    asrResp,        \* the argument
    norm            \* what the call returned, once it has

normVars == <<asrResp, norm>>

\* One construction of the SRT cues.
VARIABLES
    srtIn,          \* asrStructured.segments, srcText, dur, SRT_MAX_*
    srt             \* the locals of the construction, and its position

srtVars == <<srtIn, srt>>

\* The settings one job is processed with.
VARIABLES
    effective       \* enhanceFlag, burnSubtitles, mergeMode, the merge command

flagVars == <<effective>>

\* The upload directory shared by the server and the workers of all jobs.
VARIABLES
    uploadDir,      \* the files of UPLOAD_DIR: path, the job that wrote it, kind
    accepted,       \* the job data of the uploads POST /upload answered, in order
    artifacts,      \* per accepted job, how many of its artifacts it has written
    overwritten     \* the writes that replaced a file of another job

storeVars == <<uploadDir, accepted, artifacts, overwritten>>

\* The executions of one job.
VARIABLES
    stalled         \* how often the job went back from active to queued

moreVars == <<storeVars, stalled>>

sideVars == <<normVars, srtVars, flagVars, moreVars>>

handlerVars ==
    <<jobName, data, env, state, progress, returnvalue, failedReason, pc, files,
      content, written, reports, log, lastProgress, nEvents, audioForAsr,
      transcriptText, asrStructured, translatedText, synthCalls, outcome,
      ttsDurationSec, mergeStarted, dubbedCreated, retval>>

vars == <<handlerVars, retryVars, sideVars>>

cfgVars == <<jobName, data, env>>

recVars == <<state, returnvalue, failedReason>>

diskVars == <<files, content, written>>

textVars == <<transcriptText, asrStructured, translatedText, synthCalls>>

mergeVars == <<ttsDurationSec, mergeStarted, dubbedCreated>>

Calls ==
    {"extract", "enhance", "transcribe", "translate", "synthesize",
     "probe", "duration", "merge"}

JobNames == {"process-video", "other-job"}

DataEnhance == {Undef, Str("true")}

DataBurn == {Undef, Str("true")}

DataMergeMode == {Undef, Str("mix")}

EnvEnhance == {Undef}

EnvBurn == {Undef}

EnvMergeMode == {Undef}

TranslateProviders == {"mock", "google"}

\* The texts the translation provider answers with.
TranslatedTexts == { << >>, <<"halo", " ", "dunia">> }

\* progress.percent of an ffmpeg progress event (0 when it is missing).
Percents == {0, 80, 100, 120}

\* Durations ffprobe reports for the synthesized audio.
TtsDurations == {0, 6}

NoResult ==
    [audio |-> "absent", transcript |-> "absent", translated |-> "absent",
     tts |-> "absent", dubbed |-> "absent", enhancedAudio |-> "absent"]

NoReturn == [kind |-> "none", value |-> NoResult, msg |-> << >>]

\* An option of opts that is missing (typeof opts.x !== 'number').
NoOpt == [set |-> FALSE, num |-> 0, den |-> 1]

\* A numeric option of opts, num/den.
Opt(num, den) == [set |-> TRUE, num |-> num, den |-> den]

NotSettled == [kind |-> "none", v |-> ""]

NotNormalized == [done |-> FALSE, threw |-> FALSE, text |-> << >>, segments |-> << >>]

\* No call of normalizeAsrResponse is being followed.
NormIdle ==
    /\ asrResp = NullPayload
    /\ norm = NotNormalized

\* The locals of the construction of the cues, before it starts.
SrtLocals(at) ==
    [pc |-> at, builder |-> "none", totalSeconds |-> Num(0, 1),
     i |-> 0, j |-> 0, start |-> Num(0, 1), end |-> Num(0, 1),
     parts |-> << >>, chars |-> 0, cues |-> << >>]

\* No construction of cues is being followed.
SrtIdle ==
    /\ srtIn = [segments |-> << >>, srcText |-> << >>, dur |-> Num(0, 1),
                maxWords |-> 0, maxDur |-> Num(0, 1), maxChars |-> 0]
    /\ srt = SrtLocals("idle")

NotConfigured ==
    [stage |-> "none", enhance |-> FALSE, burnSubtitles |-> FALSE,
     mergeMode |-> "", audio |-> << >>]

\* No job's settings are being followed.
FlagsIdle == effective = NotConfigured

\* The upload directory is empty and no upload was accepted.
StoreIdle ==
    /\ uploadDir = {}
    /\ accepted = << >>
    /\ artifacts = << >>
    /\ overwritten = {}

MoreIdle == StoreIdle /\ stalled = 0

SideIdle == NormIdle /\ SrtIdle /\ FlagsIdle /\ MoreIdle

\* No call is being followed.
RetryIdle ==
    /\ rSite = "none"
    /\ rOpts = [retries |-> NoOpt, minDelay |-> NoOpt, factor |-> NoOpt]
    /\ rpc = "idle"
    /\ attempt = 0
    /\ lastErr = "undefined"
    /\ history = << >>
    /\ slept = << >>
    /\ settled = NotSettled

Init ==
    /\ jobName \in JobNames
    /\ data \in [enhance : DataEnhance, burnSubtitles : DataBurn,
                 mergeMode : DataMergeMode]
    /\ env \in [ENHANCE : EnvEnhance, BURN_SUBTITLES : EnvBurn,
                MERGE_MODE : EnvMergeMode,
                TRANSLATE_PROVIDER : TranslateProviders,
                TRANSLATE_TARGET : {"id"}]
    /\ state = "queued"
    /\ progress = 0
    /\ returnvalue = [defined |-> FALSE, value |-> NoResult]
    /\ failedReason = << >>
    /\ pc = "queued"
    /\ files \in { {"source"}, {} }
    /\ content = [f \in {"transcript", "translated"} |-> << >>]
    /\ written = {}
    /\ reports = << >>
    /\ log = << >>
    /\ lastProgress = 0
    /\ nEvents = 0
    /\ audioForAsr = "none"
    /\ transcriptText = << >>
    /\ asrStructured = NoStructured
    /\ translatedText = << >>
    /\ synthCalls = << >>
    /\ outcome = [c \in Calls |-> "none"]
    /\ ttsDurationSec = 0
    /\ mergeStarted = FALSE
    /\ dubbedCreated = FALSE
    /\ retval = NoReturn
    /\ RetryIdle
    /\ SideIdle

-----------------------------------------------------------------------------
(* Flags, progress reports and the pieces every step of the handler uses.  *)

\* A flag parser that ignores the flag.
enhanceFlag_Always == TRUE

\* (process.env.ENHANCE === 'true') || (job.data.enhance &&
\*     (job.data.enhance === 'true' || job.data.enhance === true))
enhanceFlag ==
    \/ env.ENHANCE = Str("true")
    \/ /\ Truthy(data.enhance)
       /\ (data.enhance = Str("true") \/ data.enhance = Bool(TRUE))

\* (job.data.mergeMode || process.env.MERGE_MODE || 'replace').toString().toLowerCase()
mergeMode ==
    IF Truthy(data.mergeMode) THEN ToLowerCase(data.mergeMode.v)
    ELSE IF Truthy(env.MERGE_MODE) THEN ToLowerCase(env.MERGE_MODE.v)
    ELSE "replace"

\* typeof job.data.burnSubtitles !== 'undefined' ? job.data.burnSubtitles
\*                                               : process.env.BURN_SUBTITLES
burnRaw == IF data.burnSubtitles.t # "undefined" THEN data.burnSubtitles
           ELSE env.BURN_SUBTITLES

\* typeof burnRaw === 'string' ? burnRaw.toLowerCase() === 'true' : Boolean(burnRaw)
burnSubtitles ==
    IF burnRaw.t = "string" THEN ToLowerCase(burnRaw.v) = "true" ELSE Truthy(burnRaw)

Min(a, b) == IF a <= b THEN a ELSE b

\* Math.min(20, Math.floor((progress.percent || 0) / 5))
ExtractPercent(pct) == Min(20, pct \div 5)

Range(seq) == {seq[i] : i \in 1..Len(seq)}

\* job.updateProgress(p).catch(() => {}): each update is stored or lost, in
\* the order sent, so the stored progress ends as the old value or any of rep.
AfterReports(rep) == {progress} \cup Range(rep)

Report(rep) == reports' = reports \o rep /\ progress' \in AfterReports(rep)

Start(stage) == [ev |-> "start", stage |-> stage]

Resolve(stage) == [ev |-> "resolve", stage |-> stage]

\* An 'error' event that resolves the promise instead of rejecting it.
ExtractRejects_Never(evt) == FALSE

\* .on('end', () => resolve()).on('error', err => reject(err))
ExtractRejects(evt) == evt = "error"

\* A synthesize call left outside its try block.
Caught_NoTts == {"enhance", "transcribe", "translate", "probe", "duration", "merge"}

\* The calls awaited inside a try block whose catch does not rethrow.
Caught ==
    {"enhance", "transcribe", "translate", "synthesize", "probe", "duration", "merge"}

\* The rejection of call c leaves the handler.
Escape(c, msg) ==
    /\ c \notin Caught
    /\ pc' = "thrown"
    /\ retval' = [kind |-> "error", value |-> NoResult, msg |-> msg]
    /\ outcome' = [outcome EXCEPT ![c] = "fail"]

\* dubbed taken from the disk, like enhancedAudio, instead of dubbedCreated.
ResultOf_DubbedOnDisk(created, onDisk) ==
    [audio |-> "audio", transcript |-> "transcript", translated |-> "translated",
     tts |-> "tts",
     dubbed |-> IF "dubbed" \in onDisk THEN "dubbed" ELSE "null",
     enhancedAudio |-> IF "audioEnhanced" \in onDisk THEN "audioEnhanced" ELSE "absent"]

\* { audio, transcript, translated, tts, dubbed: dubbedCreated ? outDubbed : null }
\* and enhancedAudio if fs.existsSync(outAudioEnhanced)
ResultOf(created, onDisk) ==
    [audio |-> "audio", transcript |-> "transcript", translated |-> "translated",
     tts |-> "tts",
     dubbed |-> IF created THEN "dubbed" ELSE "null",
     enhancedAudio |-> IF "audioEnhanced" \in onDisk THEN "audioEnhanced" ELSE "absent"]

\* Finalize: report 100 and return the result.
Return(rep, lg, created, onDisk) ==
    /\ Report(rep \o <<100>>)
    /\ log' = log \o lg \o <<Start("done")>>
    /\ pc' = "returned"
    /\ retval' = [kind |-> "result", value |-> ResultOf(created, onDisk), msg |-> << >>]

Write(fs) == files' = files \cup fs /\ written' = written \cup fs

-----------------------------------------------------------------------------
(* The worker.                                                             *)

\* The worker takes the job from the queue.
Pickup ==
    /\ pc = "queued"
    /\ state' = "active"
    /\ pc' = "start"
    /\ UNCHANGED <<cfgVars, retryVars, sideVars, returnvalue, failedReason, progress, diskVars, reports,
                   log, lastProgress, nEvents, audioForAsr, textVars, outcome,
                   mergeVars, retval>>

\* The handler up to the first await: name check, source check, ffmpeg started.
HandlerStart ==
    /\ pc = "start"
    /\ IF jobName # "process-video"
       THEN /\ pc' = "returned"
            /\ retval' = [kind |-> "undefined", value |-> NoResult, msg |-> << >>]
            /\ UNCHANGED log
       ELSE IF "source" \notin files
       THEN /\ pc' = "thrown"
            /\ retval' = [kind |-> "error", value |-> NoResult,
                          msg |-> <<"source file not found">>]
            /\ UNCHANGED log
       ELSE /\ pc' = "extract"
            /\ log' = log \o <<Start("extract")>>
            /\ UNCHANGED retval
    /\ UNCHANGED <<cfgVars, retryVars, sideVars, recVars, progress, diskVars, reports, lastProgress,
                   nEvents, audioForAsr, textVars, outcome, mergeVars>>

\* An ffmpeg 'progress' event of the extraction.
ExtractProgress(pct) ==
    /\ pc = "extract"
    /\ nEvents < MaxProgressEvents
    /\ nEvents' = nEvents + 1
    /\ IF ExtractPercent(pct) > lastProgress
       THEN lastProgress' = ExtractPercent(pct) /\ Report(<<ExtractPercent(pct)>>)
       ELSE UNCHANGED <<lastProgress, reports, progress>>
    /\ UNCHANGED <<cfgVars, retryVars, sideVars, recVars, pc, diskVars, log, audioForAsr, textVars,
                   outcome, mergeVars, retval>>

\* The extraction ends or fails; on success the handler runs on to the next
\* await: enhanceAudio when the flag is set, else transcribe.
ExtractSettle(evt, msg, partial) ==
    /\ pc = "extract"
    /\ outcome' = [outcome EXCEPT !["extract"] = IF evt = "end" THEN "ok" ELSE "fail"]
    /\ Write(IF evt = "end" \/ partial THEN {"audio"} ELSE {})
    /\ IF ExtractRejects(evt)
       THEN /\ pc' = "thrown"
            /\ retval' = [kind |-> "error", value |-> NoResult, msg |-> msg]
            /\ log' = log \o <<Resolve("extract")>>
            /\ UNCHANGED <<reports, progress, audioForAsr>>
       ELSE IF enhanceFlag
       THEN /\ Report(<<15>>)
            /\ log' = log \o <<Resolve("extract"), Start("enhance")>>
            /\ pc' = "enhance"
            /\ audioForAsr' = "audio"
            /\ UNCHANGED retval
       ELSE /\ Report(<<25>>)
            /\ log' = log \o <<Resolve("extract"), Start("transcribe")>>
            /\ pc' = "transcribe"
            /\ audioForAsr' = "audio"
            /\ UNCHANGED retval
    /\ UNCHANGED <<cfgVars, retryVars, sideVars, recVars, content, lastProgress, nEvents, textVars,
                   mergeVars>>

\* The enhanced path chosen before the await and not reset in the catch.
audioAfterEnhance_Always(ok) == "audioEnhanced"

\* audioForAsr = outAudioEnhanced after the await; audioForAsr = outAudio in
\* the catch.
audioAfterEnhance(ok) == IF ok THEN "audioEnhanced" ELSE "audio"

\* enhanceAudio resolves or rejects; the handler runs on to transcribe.
EnhanceSettle(ok, msg, partial) ==
    /\ pc = "enhance"
    /\ IF ok
       THEN /\ outcome' = [outcome EXCEPT !["enhance"] = "ok"]
            /\ Write({"audioEnhanced"})
            /\ audioForAsr' = audioAfterEnhance(TRUE)
            /\ Report(<<20, 25>>)
            /\ log' = log \o <<Resolve("enhance"), Start("transcribe")>>
            /\ pc' = "transcribe"
            /\ UNCHANGED retval
       ELSE IF "enhance" \in Caught
       THEN /\ outcome' = [outcome EXCEPT !["enhance"] = "fail"]
            /\ Write({"enhanceError"} \cup IF partial THEN {"audioEnhanced"} ELSE {})
            /\ audioForAsr' = audioAfterEnhance(FALSE)
            /\ Report(<<25>>)
            /\ log' = log \o <<Resolve("enhance"), Start("transcribe")>>
            /\ pc' = "transcribe"
            /\ UNCHANGED retval
       ELSE /\ Escape("enhance", msg)
            /\ log' = log \o <<Resolve("enhance")>>
            /\ UNCHANGED <<files, written, audioForAsr, reports, progress>>
    /\ UNCHANGED <<cfgVars, retryVars, sideVars, recVars, content, lastProgress, nEvents, textVars,
                   mergeVars>>

\* transcribe resolves with a payload or rejects; the transcript is written and
\* the handler runs on to translateText.
TranscribeSettle(ok, payload, msg) ==
    /\ pc = "transcribe"
    /\ IF ok
       THEN /\ outcome' = [outcome EXCEPT !["transcribe"] = "ok"]
            /\ asrStructured' =
                   [defined |-> TRUE,
                    text |-> normalizeAsrResponse(payload).text,
                    segments |-> normalizeAsrResponse(payload).segments]
            /\ transcriptText' = TranscriptOf(normalizeAsrResponse(payload))
            /\ Write({"transcriptJson", "transcript"})
       ELSE /\ "transcribe" \in Caught
            /\ outcome' = [outcome EXCEPT !["transcribe"] = "fail"]
            /\ transcriptText' = AsrErrorText(msg)
            /\ Write({"transcript"})
            /\ UNCHANGED asrStructured
    /\ content' = [content EXCEPT !["transcript"] = TranscriptFull(transcriptText')]
    /\ Report(<<45>>)
    /\ log' = log \o <<Resolve("transcribe"), Start("translate")>>
    /\ pc' = "translate"
    /\ UNCHANGED <<cfgVars, retryVars, sideVars, recVars, lastProgress, nEvents, audioForAsr,
                   translatedText, synthCalls, mergeVars, retval>>

\* What the translation provider answers: a text or an error.
ProviderAnswers ==
    { [ok |-> TRUE, text |-> t] : t \in TranslatedTexts }
    \cup { [ok |-> FALSE, text |-> m] : m \in ErrMessages }

\* translateText(text, target) given the provider's answer: the mock never
\* asks the provider, an unknown TRANSLATE_PROVIDER throws.
translateText(text, target, answer) ==
    IF ToLowerCase(env.TRANSLATE_PROVIDER) = "mock"
    THEN [ok |-> TRUE, text |-> TranslateMock(text, target)]
    ELSE IF ToLowerCase(env.TRANSLATE_PROVIDER) = "google"
    THEN answer
    ELSE [ok |-> FALSE, text |-> <<"Unknown TRANSLATE_PROVIDER">>]

\* translateText settles; the translated file is written and the handler runs
\* on to synthesize.
TranslateSettle(answer) ==
    /\ pc = "translate"
    /\ LET res == translateText(transcriptText, env.TRANSLATE_TARGET, answer) IN
         IF res.ok
         THEN /\ outcome' = [outcome EXCEPT !["translate"] = "ok"]
              /\ translatedText' = res.text
         ELSE /\ "translate" \in Caught
              /\ outcome' = [outcome EXCEPT !["translate"] = "fail"]
              /\ translatedText' = TranslationErrorText(res.text)
    /\ content' = [content EXCEPT !["translated"] = translatedText']
    /\ Write({"translated"})
    /\ Report(<<55>>)
    /\ synthCalls' = Append(synthCalls, TtsInput(translatedText', transcriptText))
    /\ log' = log \o <<Resolve("translate"), Start("synthesize")>>
    /\ pc' = "synthesize"
    /\ UNCHANGED <<cfgVars, retryVars, sideVars, recVars, lastProgress, nEvents, audioForAsr,
                   transcriptText, asrStructured, mergeVars, retval>>

\* synthesize resolves (the mp3 is written) or rejects (it rejects at once on an
\* empty text); the handler runs on to the probe of the source.
SynthSettle(ok, msg) ==
    /\ pc = "synthesize"
    /\ ok => synthCalls[Len(synthCalls)] # << >>
    /\ IF ok
       THEN /\ outcome' = [outcome EXCEPT !["synthesize"] = "ok"]
            /\ Write({"tts"})
            /\ Report(<<85>>)
            /\ log' = log \o <<Resolve("synthesize"), Start("merge")>>
            /\ pc' = "probe"
            /\ UNCHANGED retval
       ELSE IF "synthesize" \in Caught
       THEN /\ outcome' = [outcome EXCEPT !["synthesize"] = "fail"]
            /\ Write({"ttsError"})
            /\ log' = log \o <<Resolve("synthesize"), Start("merge")>>
            /\ pc' = "probe"
            /\ UNCHANGED <<reports, progress, retval>>
       ELSE /\ Escape("synthesize", msg)
            /\ log' = log \o <<Resolve("synthesize")>>
            /\ UNCHANGED <<files, written, reports, progress>>
    /\ UNCHANGED <<cfgVars, retryVars, sideVars, recVars, content, lastProgress, nEvents, audioForAsr,
                   textVars, mergeVars>>

\* The streams ffprobe lists for the source, by codec_type.
ProbeStreams == { << >>, <<"audio">>, <<"video", "audio">> }

\* A test for any stream instead of a video stream.
hasVideoStream_AnyStream(streams) == Len(streams) > 0

\* streams.some(s => s.codec_type === 'video')
hasVideoStream(streams) == \E i \in 1..Len(streams) : streams[i] = "video"

\* hasVideoStream(filePath) settles: ffprobe failed, or it listed the source's
\* streams; without a video stream the merge is skipped, with one
\* getDurationSeconds(filePath) is called.
ProbeSettle(ok, streams, msg) ==
    /\ pc = "probe"
    /\ "probe" \in Caught
    /\ IF ~ok
       THEN /\ outcome' = [outcome EXCEPT !["probe"] = "fail"]
            /\ Write({"mergeError"})
            /\ Return(<< >>, <<Resolve("merge")>>, dubbedCreated, files')
       ELSE /\ outcome' = [outcome EXCEPT !["probe"] =
                              IF "video" \in Range(streams) THEN "video" ELSE "novideo"]
            /\ IF ~hasVideoStream(streams)
               THEN /\ Write({"mergeSkip"})
                    /\ Return(<<95>>, <<Resolve("merge")>>, dubbedCreated, files')
               ELSE /\ pc' = "duration"
                    /\ UNCHANGED <<files, written, reports, progress, log, retval>>
    /\ UNCHANGED <<cfgVars, retryVars, sideVars, recVars, content, lastProgress, nEvents, audioForAsr,
                   textVars, mergeVars>>

\* getDurationSeconds(filePath) settles; on success the SRT is written when
\* subtitles are requested, then the TTS file is probed (mix) or the merge
\* command is started.
DurationSettle(ok, msg) ==
    /\ pc = "duration"
    /\ "duration" \in Caught
    /\ IF ok
       THEN /\ outcome' = [outcome EXCEPT !["duration"] = "ok"]
            /\ Write(IF burnSubtitles THEN {"srt"} ELSE {})
            /\ pc' = IF mergeMode = "mix" THEN "ttsprobe" ELSE "merge"
            /\ UNCHANGED <<reports, progress, log, retval>>
       ELSE /\ outcome' = [outcome EXCEPT !["duration"] = "fail"]
            /\ Write({"mergeError"})
            /\ Return(<< >>, <<Resolve("merge")>>, dubbedCreated, files')
    /\ UNCHANGED <<cfgVars, retryVars, sideVars, recVars, content, lastProgress, nEvents, audioForAsr,
                   textVars, mergeVars>>

\* getDurationSeconds(outTts) settles (a failure counts as 0); the merge
\* command is started.
TtsProbeSettle(ok, d) ==
    /\ pc = "ttsprobe"
    /\ ok => "tts" \in files
    /\ ttsDurationSec' = IF ok THEN d ELSE 0
    /\ pc' = "merge"
    /\ UNCHANGED <<cfgVars, retryVars, sideVars, recVars, progress, diskVars, reports, log, lastProgress,
                   nEvents, audioForAsr, textVars, outcome, mergeStarted,
                   dubbedCreated, retval>>

\* The merge command emits 'start'.
MergeStartEvent ==
    /\ pc = "merge"
    /\ ~mergeStarted
    /\ mergeStarted' = TRUE
    /\ Report(<<90>>)
    /\ UNCHANGED <<cfgVars, retryVars, sideVars, recVars, pc, diskVars, log, lastProgress, nEvents,
                   audioForAsr, textVars, outcome, ttsDurationSec, dubbedCreated,
                   retval>>

\* The merge command ends (it cannot without its TTS input) or fails; the
\* handler finalizes and returns.
MergeSettle(ok, msg, partial) ==
    /\ pc = "merge"
    /\ "merge" \in Caught
    /\ ok => mergeStarted /\ "tts" \in files
    /\ IF ok
       THEN /\ outcome' = [outcome EXCEPT !["merge"] = "ok"]
            /\ Write({"dubbed"})
            /\ dubbedCreated' = TRUE
            /\ Return(<<95>>, <<Resolve("merge")>>, TRUE, files')
       ELSE /\ outcome' = [outcome EXCEPT !["merge"] = "fail"]
            /\ Write({"mergeError"} \cup IF partial THEN {"dubbed"} ELSE {})
            /\ UNCHANGED dubbedCreated
            /\ Return(<< >>, <<Resolve("merge")>>, dubbedCreated, files')
    /\ UNCHANGED <<cfgVars, retryVars, sideVars, recVars, content, lastProgress, nEvents, audioForAsr,
                   textVars, ttsDurationSec, mergeStarted>>

\* The handler's promise resolved: the queue stores the return value and moves
\* the job to completed.
Complete ==
    /\ pc = "returned"
    /\ state' = "completed"
    /\ returnvalue' = [defined |-> retval.kind = "result", value |-> retval.value]
    /\ pc' = "done"
    /\ UNCHANGED <<cfgVars, retryVars, sideVars, failedReason, progress, diskVars, reports, log,
                   lastProgress, nEvents, audioForAsr, textVars, outcome, mergeVars,
                   retval>>

\* The handler's promise rejected: the queue stores the message and moves the
\* job to failed.
Fail ==
    /\ pc = "thrown"
    /\ state' = "failed"
    /\ failedReason' = retval.msg
    /\ pc' = "done"
    /\ UNCHANGED <<cfgVars, retryVars, sideVars, returnvalue, progress, diskVars, reports, log,
                   lastProgress, nEvents, audioForAsr, textVars, outcome, mergeVars,
                   retval>>

Next ==
    \/ Pickup
    \/ HandlerStart
    \/ \E pct \in Percents : ExtractProgress(pct)
    \/ \E evt \in {"end", "error"}, msg \in ErrMessages, partial \in BOOLEAN :
           ExtractSettle(evt, msg, partial)
    \/ \E ok \in BOOLEAN, msg \in ErrMessages, partial \in BOOLEAN :
           EnhanceSettle(ok, msg, partial)
    \/ \E ok \in BOOLEAN, payload \in AsrPayloads, msg \in ErrMessages :
           TranscribeSettle(ok, payload, msg)
    \/ \E answer \in ProviderAnswers : TranslateSettle(answer)
    \/ \E ok \in BOOLEAN, msg \in ErrMessages : SynthSettle(ok, msg)
    \/ \E ok \in BOOLEAN, streams \in ProbeStreams, msg \in ErrMessages :
           ProbeSettle(ok, streams, msg)
    \/ \E ok \in BOOLEAN, msg \in ErrMessages : DurationSettle(ok, msg)
    \/ \E ok \in BOOLEAN, d \in TtsDurations : TtsProbeSettle(ok, d)
    \/ MergeStartEvent
    \/ \E ok \in BOOLEAN, msg \in ErrMessages, partial \in BOOLEAN :
           MergeSettle(ok, msg, partial)
    \/ Complete
    \/ Fail

Spec == Init /\ [][Next]_vars

\* GET /job/:id: { state, progress: job.progress || 0, result: job.returnvalue || null }
JobView ==
    [state |-> state,
     progress |-> progress,
     result |-> IF returnvalue.defined THEN "present" ELSE "null"]

-----------------------------------------------------------------------------
(* retry(fn, opts), and the calls of the pipeline that go through it.      *)

\* The largest opts.retries a caller passes.
MaxRetries == 3

DefaultRetries == 3
DefaultMinDelay == 500
DefaultFactor == 2

\* typeof opts.x === 'number' ? opts.x : the default
OrDefault(opt, default) == IF opt.set THEN opt ELSE Opt(default, 1)

retries(opts) == OrDefault(opts.retries, DefaultRetries).num
minDelay(opts) == OrDefault(opts.minDelay, DefaultMinDelay)
factor(opts) == OrDefault(opts.factor, DefaultFactor)

RECURSIVE Pow(_, _)
Pow(b, e) == IF e = 0 THEN 1 ELSE b * Pow(b, e - 1)

RECURSIVE SumSeq(_)
SumSeq(s) == IF s = << >> THEN 0 ELSE Head(s) + SumSeq(Tail(s))

delay_NextExponent(md, f, att) ==
    (md.num * Pow(f.num, att)) \div (md.den * Pow(f.den, att))

delay_Linear(md, f, att) ==
    (md.num * att) \div md.den

\* Math.floor(minDelay * Math.pow(factor, attempt - 1)), on fractions
delay(md, f, att) ==
    (md.num * Pow(f.num, att - 1)) \div (md.den * Pow(f.den, att - 1))

Exhausted_OneEarly(att, r) == att >= r

\* if (attempt > retries) break;
Exhausted(att, r) == att > r

\* What one invocation of fn resolves with, or rejects with.
FnValues == {"v1", "v2"}
FnErrors == {"e1", "e2"}

\* The calls of the pipeline whose provider request is handed to retry.
WrappedSites ==
    {"transcribeOpenAI", "transcribeGoogle", "translateGoogle", "synthesize"}

\* The calls of the pipeline made directly: ffmpeg (extract, merge), ffprobe
\* (probe, duration) and the python enhancer.
DirectSites == {"extract", "enhance", "probe", "duration", "merge"}

PipelineSites == WrappedSites \cup DirectSites

\* The opts each wrapped call passes.
SiteOpts(site) ==
    CASE site = "transcribeOpenAI" ->
            [retries |-> Opt(3, 1), minDelay |-> Opt(500, 1), factor |-> Opt(2, 1)]
      [] site = "transcribeGoogle" ->
            [retries |-> Opt(2, 1), minDelay |-> Opt(500, 1), factor |-> Opt(2, 1)]
      [] site = "translateGoogle" ->
            [retries |-> Opt(3, 1), minDelay |-> Opt(300, 1), factor |-> Opt(2, 1)]
      [] site = "synthesize" ->
            [retries |-> Opt(3, 1), minDelay |-> Opt(300, 1), factor |-> Opt(2, 1)]
      [] OTHER ->
            [retries |-> NoOpt, minDelay |-> NoOpt, factor |-> NoOpt]

\* The opts a caller of retry itself may pass.
AnyOpts ==
    [retries : {NoOpt} \cup {Opt(r, 1) : r \in 0..MaxRetries},
     minDelay : {NoOpt, Opt(100, 1), Opt(101, 1)},
     factor : {NoOpt, Opt(2, 1), Opt(3, 2)}]

\* The job of the handler: queued, nothing done.
JobIdle ==
    /\ state = "queued"
    /\ progress = 0
    /\ returnvalue = [defined |-> FALSE, value |-> NoResult]
    /\ failedReason = << >>
    /\ pc = "queued"
    /\ files = {"source"}
    /\ content = [f \in {"transcript", "translated"} |-> << >>]
    /\ written = {}
    /\ reports = << >>
    /\ log = << >>
    /\ lastProgress = 0
    /\ nEvents = 0
    /\ audioForAsr = "none"
    /\ transcriptText = << >>
    /\ asrStructured = NoStructured
    /\ translatedText = << >>
    /\ synthCalls = << >>
    /\ outcome = [c \in Calls |-> "none"]
    /\ ttsDurationSec = 0
    /\ mergeStarted = FALSE
    /\ dubbedCreated = FALSE
    /\ retval = NoReturn

\* The handler with a job without options.
HandlerIdle ==
    /\ jobName = "process-video"
    /\ data = [enhance |-> Undef, burnSubtitles |-> Undef, mergeMode |-> Undef]
    /\ env = [ENHANCE |-> Undef, BURN_SUBTITLES |-> Undef, MERGE_MODE |-> Undef,
              TRANSLATE_PROVIDER |-> "google", TRANSLATE_TARGET |-> "id"]
    /\ JobIdle

\* A call has just been made: retry is at its first fn(), or the direct call
\* is pending. The handler is not looked at.
InitRetry ==
    /\ HandlerIdle
    /\ SideIdle
    /\ rSite \in PipelineSites \cup {"retry"}
    /\ rOpts \in IF rSite = "retry" THEN AnyOpts ELSE {SiteOpts(rSite)}
    /\ rpc = "call"
    /\ attempt = 0
    /\ lastErr = "undefined"
    /\ history = << >>
    /\ slept = << >>
    /\ settled = NotSettled

ThroughRetry == rSite \in WrappedSites \cup {"retry"}

\* try { return await fn(); }: fn resolves and retry returns its value.
FnResolves(v) ==
    /\ ThroughRetry
    /\ rpc = "call"
    /\ history' = Append(history, [ok |-> TRUE, v |-> v])
    /\ settled' = [kind |-> "value", v |-> v]
    /\ rpc' = "returned"
    /\ UNCHANGED <<handlerVars, sideVars, rSite, rOpts, attempt, lastErr, slept>>

\* catch (err): fn rejects; retry gives up, or goes to sleep.
FnRejects(e) ==
    /\ ThroughRetry
    /\ rpc = "call"
    /\ history' = Append(history, [ok |-> FALSE, v |-> e])
    /\ lastErr' = e
    /\ attempt' = attempt + 1
    /\ IF Exhausted(attempt', retries(rOpts))
         THEN /\ rpc' = "thrown"
              /\ settled' = [kind |-> "error", v |-> lastErr']
              /\ slept' = slept
         ELSE /\ rpc' = "wait"
              /\ slept' = Append(slept,
                                 delay(minDelay(rOpts), factor(rOpts), attempt'))
              /\ settled' = settled
    /\ UNCHANGED <<handlerVars, sideVars, rSite, rOpts>>

\* The timer of wait(delay) fires; while (attempt <= retries) holds, since
\* the catch block left the loop otherwise.
WaitDone ==
    /\ rpc = "wait"
    /\ attempt <= retries(rOpts)
    /\ rpc' = "call"
    /\ UNCHANGED <<handlerVars, sideVars, rSite, rOpts, attempt, lastErr, history, slept,
                   settled>>

\* A direct call resolves.
DirectResolves(v) ==
    /\ rSite \in DirectSites
    /\ rpc = "call"
    /\ history' = Append(history, [ok |-> TRUE, v |-> v])
    /\ settled' = [kind |-> "value", v |-> v]
    /\ rpc' = "returned"
    /\ UNCHANGED <<handlerVars, sideVars, rSite, rOpts, attempt, lastErr, slept>>

\* A direct call rejects: the handler's catch block (or the job's failure)
\* is what comes next.
DirectRejects(e) ==
    /\ rSite \in DirectSites
    /\ rpc = "call"
    /\ history' = Append(history, [ok |-> FALSE, v |-> e])
    /\ settled' = [kind |-> "error", v |-> e]
    /\ rpc' = "thrown"
    /\ UNCHANGED <<handlerVars, sideVars, rSite, rOpts, attempt, lastErr, slept>>

NextRetry ==
    \/ \E v \in FnValues : FnResolves(v)
    \/ \E e \in FnErrors : FnRejects(e)
    \/ WaitDone
    \/ \E v \in FnValues : DirectResolves(v)
    \/ \E e \in FnErrors : DirectRejects(e)

SpecRetry == InitRetry /\ [][NextRetry]_vars

-----------------------------------------------------------------------------
(* normalizeAsrResponse on the payloads of the providers.                  *)

\* The values a time field of a segment takes (seconds), undefined when the
\* field is missing.
SegmentTimes ==
    {Undef, Num(0, 1), Num(2, 1), Num(-1, 1), Str("abc"), Str("2"), NaN, Infinity}

\* Segments of an OpenAI verbose_json payload.
SegmentsA ==
    [text : {<<"hi">>}, start : SegmentTimes, end : SegmentTimes]

\* Segments of a whisper.cpp-like payload.
SegmentsB ==
    [text : {<<"hi">>},
     start : {Undef, Num(0, 1), Num(2, 1), Num(-1, 1), Str("abc")},
     begin : {Undef, Num(1, 1)},
     seek : {Undef, Num(3, 1)},
     end : {Undef, Num(4, 1), Infinity},
     duration : {Undef, Num(1, 2)}]

\* A segment that carries its words.
SegmentWithWords ==
    [transcript |-> <<"hi", " ", "there">>, begin |-> Num(1, 1),
     words |-> << [word |-> <<"hi">>, start |-> Num(1, 1), end |-> Num(3, 2)],
                  [text |-> <<"there">>, startTime |-> Num(3, 2)] >>]

\* startTime / endTime of a word of a Google result.
GoogleTimes ==
    {Undef, Num(0, 1), Num(3, 2), NaN, Num(-1, 1),
     TimeObject(Num(0, 1), Num(0, 1)),
     TimeObject(Num(0, 1), Num(500000000, 1)),
     TimeObject(Num(0, 1), Num(600000000, 1)),
     TimeObject(Num(1, 1), Num(200000000, 1)),
     TimeObject(Str("1"), Undef),
     TimeObject(Undef, Num(250000000, 1))}

\* The result of scenario S6 of the specification.
ResultS6 ==
    [alternatives |->
        << [transcript |-> <<"hi", " ", "there">>,
            words |->
               << [word |-> <<"hi">>,
                   startTime |-> TimeObject(Num(0, 1), Num(0, 1)),
                   endTime |-> TimeObject(Num(0, 1), Num(500000000, 1))],
                  [word |-> <<"there">>,
                   startTime |-> TimeObject(Num(0, 1), Num(600000000, 1)),
                   endTime |-> TimeObject(Num(1, 1), Num(200000000, 1))] >>],
           [transcript |-> <<"high", " ", "there">>] >>]

\* A later result, as Google gives it: the transcript opens with a space.
ResultLater == [alternatives |-> << [transcript |-> <<" ", "dunia">>] >>]

\* Results with one word, without words, without alternatives.
ResultsC ==
    {ResultS6, [alternatives |-> << >>]}
    \cup {[alternatives |->
              << [transcript |-> <<"halo">>,
                  words |-> << [word |-> <<"halo">>, startTime |-> st,
                                endTime |-> et] >>] >> ] :
            st \in GoogleTimes, et \in {Undef, Num(3, 2),
                                        TimeObject(Num(1, 1), Num(200000000, 1))}}

\* transcribeMock(filePath): a placeholder text naming the file.
transcribeMock(filePath) ==
    StringPayload(<<"TRANSCRIPT MOCK - file=", filePath, " size=", "n/a">>)

\* resp.data of the OpenAI endpoint: the transcript as a string, or the
\* verbose_json object when ASR_TIMESTAMPS is 'true'.
OpenAiData ==
    {StringPayload(<<"hi", " ", "there">>),
     ShapeA(<<"hi", " ", "there">>,
            << [text |-> <<"hi">>, start |-> Num(0, 1), end |-> Num(1, 2)],
               [text |-> <<" ", "there">>, start |-> Num(1, 2),
                end |-> Num(6, 5)] >>)}

\* doPost of transcribeOpenAI: an object or a string is returned as it is.
transcribeOpenAI(respData) == respData

\* (t && (Number(t.seconds || 0) + Number(t.nanos || 0) / 1e9)) || 0
AdapterTime(t) ==
    IF t.t = "object"
    THEN Or(Plus(ToNumber(Or(t.seconds, Num(0, 1))),
                 DivE9(ToNumber(Or(t.nanos, Num(0, 1))))),
            Num(0, 1))
    ELSE Num(0, 1)

RECURSIVE AdapterTranscripts(_)
\* if (alt.transcript) transcripts.push(alt.transcript.trim())
AdapterTranscripts(results) ==
    IF results = << >> THEN << >>
    ELSE (IF HasFirstAlternative(Head(results))
             /\ TextField(Head(results).alternatives[1], "transcript") # << >>
          THEN <<Trim(Head(results).alternatives[1].transcript)>>
          ELSE << >>)
         \o AdapterTranscripts(Tail(results))

RECURSIVE AdapterWords(_)
\* words.push({ word: w.word, start, end }) for the words of alternatives[0]
AdapterWords(results) ==
    IF results = << >> THEN << >>
    ELSE (IF HasFirstAlternative(Head(results))
             /\ "words" \in DOMAIN Head(results).alternatives[1]
          THEN [i \in 1..Len(Head(results).alternatives[1].words) |->
                   [word |-> Head(results).alternatives[1].words[i].word,
                    start |-> AdapterTime(
                        Get(Head(results).alternatives[1].words[i], "startTime")),
                    end |-> AdapterTime(
                        Get(Head(results).alternatives[1].words[i], "endTime"))]]
          ELSE << >>)
         \o AdapterWords(Tail(results))

\* { text: fullText, words, raw: response }
GoogleObject(fullText, words, response) ==
    [kind |-> "object", hasText |-> TRUE, text |-> fullText,
     hasSegments |-> FALSE, segments |-> << >>,
     hasResults |-> FALSE, results |-> << >>, stringifies |-> TRUE,
     words |-> words, raw |-> response]

\* response.results of the Google API.
GoogleResponses ==
    {<< >>, <<ResultS6>>, <<ResultS6, ResultLater>>,
     <<[alternatives |-> << >>], ResultS6>>}

\* transcribeGoogle: the object when word offsets are enabled, else the text.
transcribeGoogle(results, enableWordTimeOffsets) ==
    IF enableWordTimeOffsets
    THEN GoogleObject(Trim(Join(AdapterTranscripts(results), <<" ">>)),
                      AdapterWords(results), results)
    ELSE StringPayload(Trim(Join(AdapterTranscripts(results), <<" ">>)))

\* What transcribe() resolves with, by ASR_PROVIDER.
AdapterPayloads ==
    {transcribeMock("talk-audio.wav")}
    \cup {transcribeOpenAI(respData) : respData \in OpenAiData}
    \cup {transcribeGoogle(results, enable) :
            results \in GoogleResponses, enable \in BOOLEAN}

\* The arguments of normalizeAsrResponse.
NormPayloads ==
    {NullPayload, StringPayload(<< >>), StringPayload(<<"hello">>),
     OtherObject, BareObject,
     ShapeA(<<"x">>, <<Null>>), ShapeB(<<Null>>), ShapeC(<<Null>>),
     ShapeB(<<SegmentWithWords>>)}
    \cup {ShapeA(<<"hi">>, <<s>>) : s \in SegmentsA}
    \cup {ShapeB(<<s>>) : s \in SegmentsB}
    \cup {ShapeC(<<r>>) : r \in ResultsC}
    \cup {ShapeC(<<ResultS6, r>>) : r \in ResultsC \cup {ResultLater}}
    \cup AdapterPayloads

InitNorm ==
    /\ HandlerIdle
    /\ RetryIdle
    /\ SrtIdle
    /\ FlagsIdle
    /\ MoreIdle
    /\ asrResp \in NormPayloads
    /\ norm = NotNormalized

\* const norm = normalizeAsrResponse(asrResp)
Normalize ==
    /\ ~norm.done
    /\ norm' = [done |-> TRUE,
                threw |-> normalizeAsrResponse(asrResp).threw,
                text |-> normalizeAsrResponse(asrResp).text,
                segments |-> normalizeAsrResponse(asrResp).segments]
    /\ UNCHANGED <<handlerVars, retryVars, moreVars, srtVars, flagVars, asrResp>>

NextNorm == Normalize

SpecNorm == InitNorm /\ [][NextNorm]_vars

-----------------------------------------------------------------------------
(* The subtitles: the construction of the SRT cues before the merge.       *)

\* The longest list of words the grouping is followed on, word by word.
MaxSrtWords == 3

\* The cues kept; a terminating run emits at most one cue per word.
MaxCues == MaxSrtWords + 1

DefaultSrtMaxWords == 7
DefaultSrtMaxLineDuration == 4
DefaultSrtMaxChars == 80

\* a - b, a * b, a > b on finite numbers.
Minus(a, b) == Rat(a.v[1] * b.v[2] - b.v[1] * a.v[2], a.v[2] * b.v[2])
Times(a, b) == Rat(a.v[1] * b.v[1], a.v[2] * b.v[2])
Gt(a, b) == ~Leq(a, b)

\* The number of characters of a token.
TokenLen(tok) ==
    CASE tok \in {"hi", "Hi"} -> 2
      [] tok = "Apa" -> 3
      [] tok \in {"Halo", "halo"} -> 4
      [] tok \in {"there", "dunia", "kabar", "hello", "world"} -> 5
      [] tok = "extraordinarily" -> 15
      [] OTHER -> 1

RECURSIVE StrLen(_)
\* String.prototype.length
StrLen(text) == IF text = << >> THEN 0 ELSE TokenLen(Head(text)) + StrLen(Tail(text))

Terminators == {".", "!", "?"}

RECURSIVE SquashNewlines(_)
\* text.replace(/\n+/g, ' ')
SquashNewlines(text) ==
    IF text = << >> THEN << >>
    ELSE IF Head(text) = "\n"
    THEN IF Len(text) > 1 /\ text[2] = "\n" THEN SquashNewlines(Tail(text))
         ELSE <<" ">> \o SquashNewlines(Tail(text))
    ELSE <<Head(text)>> \o SquashNewlines(Tail(text))

RECURSIVE SplitAfterTerminators(_, _)
\* .split(/(?<=[.!?])\s+/): cur is the piece being read.
SplitAfterTerminators(text, cur) ==
    IF text = << >> THEN <<cur>>
    ELSE IF Head(text) = " " /\ cur # << >> /\ cur[Len(cur)] \in Terminators
    THEN <<cur>> \o SplitAfterTerminators(TrimStart(text), << >>)
    ELSE SplitAfterTerminators(Tail(text), cur \o <<Head(text)>>)

RECURSIVE NonEmptyTrimmed(_)
\* .map(s => s.trim()).filter(Boolean)
NonEmptyTrimmed(pieces) ==
    IF pieces = << >> THEN << >>
    ELSE (IF Trim(Head(pieces)) # << >> THEN <<Trim(Head(pieces))>> ELSE << >>)
         \o NonEmptyTrimmed(Tail(pieces))

\* The sentences of segmentTranscriptToSrt.
Sentences(text) == NonEmptyTrimmed(SplitAfterTerminators(SquashNewlines(text), << >>))

RECURSIVE TotalChars(_)
\* parts.reduce((s, p) => s + p.length, 0)
TotalChars(parts) ==
    IF parts = << >> THEN 0 ELSE StrLen(Head(parts)) + TotalChars(Tail(parts))

\* An SRT cue, its times as they are before formatSrtTime prints them.
\* first and n: the words[first .. first+n-1] a word-grouped cue was made of.
Cue(start, end, text, first, n) ==
    [start |-> start, end |-> end, text |-> text, first |-> first, n |-> n]

CueDuration_EqualShares(totalSeconds, chars, totalChars, nParts) ==
    Times(totalSeconds, Rat(1, nParts))

\* totalSeconds * (chars / totalChars)
CueDuration(totalSeconds, chars, totalChars, nParts) ==
    Times(totalSeconds, Rat(chars, totalChars))

RECURSIVE ProportionalCues(_, _, _, _, _)
\* The loop of segmentTranscriptToSrt over parts[k..], cursor being the end
\* of the previous cue.
ProportionalCues(parts, k, totalSeconds, totalChars, cursor) ==
    IF k > Len(parts) THEN << >>
    ELSE <<Cue(cursor,
               Plus(cursor, CueDuration(totalSeconds, StrLen(parts[k]),
                                        totalChars, Len(parts))),
               parts[k], 0, 0)>>
         \o ProportionalCues(parts, k + 1, totalSeconds, totalChars,
               Plus(cursor, CueDuration(totalSeconds, StrLen(parts[k]),
                                        totalChars, Len(parts))))

\* segmentTranscriptToSrt(text, totalSeconds), as the list of its cues
segmentTranscriptToSrt(text, totalSeconds) ==
    IF text = << >> \/ Sentences(text) = << >> THEN << >>
    ELSE ProportionalCues(Sentences(text), 1, totalSeconds,
                          TotalChars(Sentences(text)), Num(0, 1))

RECURSIVE FlattenWords(_)
\* asrStructured.segments.forEach(seg => (seg.words || []).forEach(...push))
FlattenWords(segments) ==
    IF segments = << >> THEN << >>
    ELSE (IF Head(segments).hasWords THEN Head(segments).words ELSE << >>)
         \o FlattenWords(Tail(segments))

\* Array.isArray(asrStructured.segments[0].words)
hasWords(segments) == segments[1].hasWords

\* One cue per segment: st = Number(s.start) || 0,
\* ed = Number(s.end) || (st + (s.duration || 0))
SegmentCues(segments) ==
    [k \in 1..Len(segments) |->
        Cue(Or(ToNumber(segments[k].start), Num(0, 1)),
            Or(ToNumber(segments[k].end),
               Plus(Or(ToNumber(segments[k].start), Num(0, 1)),
                    Or(Get(segments[k], "duration"), Num(0, 1)))),
            Trim(segments[k].text), 0, 0)]

\* dur || 1
TotalSeconds(dur) == Or(dur, Num(1, 1))

\* A word of a transcript, and how long it is spoken (seconds).
WordChoices ==
    [word : {<<"hi">>, <<"extraordinarily">>}, dur : {Num(1, 2), Num(5, 1)}]

RECURSIVE SpokenUntil(_, _)
\* The end of the k-th word when the words follow each other from 0.
SpokenUntil(choices, k) ==
    IF k = 0 THEN Num(0, 1) ELSE Plus(SpokenUntil(choices, k - 1), choices[k].dur)

\* { word, start, end } for each of the words.
TimedWords(choices) ==
    [k \in 1..Len(choices) |->
        [word |-> choices[k].word,
         start |-> SpokenUntil(choices, k - 1),
         end |-> SpokenUntil(choices, k)]]

WordLists == UNION {[1..n -> WordChoices] : n \in 0..MaxSrtWords}

\* A canonical segment with its words.
SegmentOfWords(words) ==
    [text |-> Join([k \in 1..Len(words) |-> words[k].word], <<" ">>),
     start |-> IF words = << >> THEN Num(0, 1) ELSE words[1].start,
     end |-> IF words = << >> THEN Num(0, 1) ELSE words[Len(words)].end,
     hasWords |-> TRUE, words |-> words]

\* A canonical segment without words.
SegmentOfText(text, start, end) ==
    [text |-> text, start |-> start, end |-> end, hasWords |-> FALSE,
     words |-> << >>]

\* Twenty words over ten seconds (scenario S4 of the specification).
TwentyWords ==
    [k \in 1..20 |-> [word |-> <<"hi">>, start |-> Rat(k - 1, 2), end |-> Rat(k, 2)]]

TwoSentences == <<"Halo", " ", "dunia", ".", " ", "Apa", "?">>

\* The texts the proportional algorithm is given.
SrtTexts ==
    {<< >>, <<" ">>, <<"Halo", ".">>, TwoSentences,
     <<"Hi", "!", "\n", "\n", "Halo", " ", "dunia", ".", " ", " ", "Apa", " ",
       "kabar", "?">>}

\* What getDurationSeconds resolves with for the source: 0 when the probe
\* reports no duration.
SrtDurations == {Num(0, 1), Num(1, 2), Num(10, 1)}

\* SRT_MAX_WORDS, SRT_MAX_LINE_DURATION, SRT_MAX_CHARS of the environment.
SrtMaxWords == {0, 1, 2, DefaultSrtMaxWords}
SrtMaxLineDurations == {Num(1, 1), Num(DefaultSrtMaxLineDuration, 1)}
SrtMaxChars == {4, DefaultSrtMaxChars}

SrtInput(segments, srcText, dur, maxWords, maxDur, maxChars) ==
    [segments |-> segments, srcText |-> srcText, dur |-> dur,
     maxWords |-> maxWords, maxDur |-> maxDur, maxChars |-> maxChars]

DefaultInput(segments, srcText, dur) ==
    SrtInput(segments, srcText, dur, DefaultSrtMaxWords,
             Num(DefaultSrtMaxLineDuration, 1), DefaultSrtMaxChars)

\* The transcripts, texts and settings the cues are built from.
SrtInputs ==
    {SrtInput(<<SegmentOfWords(TimedWords(ws))>>, TwoSentences, Num(10, 1),
              mw, md, mc) :
        ws \in WordLists, mw \in SrtMaxWords, md \in SrtMaxLineDurations,
        mc \in SrtMaxChars}
    \cup {DefaultInput(<< >>, text, dur) : text \in SrtTexts, dur \in SrtDurations}
    \cup {DefaultInput(segments, TwoSentences, Num(10, 1)) :
            segments \in
              {<<SegmentOfWords(TwentyWords)>>,
               <<SegmentOfText(<<"hi">>, Num(0, 1), Num(1, 2)),
                 SegmentOfText(<<" ", "there">>, Num(1, 2), Num(1, 1))>>,
               <<SegmentOfText(<<"hi">>, Num(0, 1), Num(1, 2)),
                 SegmentOfWords(<<[word |-> <<"there">>, start |-> Num(1, 2),
                                   end |-> Num(1, 1)]>>)>>,
               <<SegmentOfWords(<<[word |-> <<"hi">>, start |-> Num(0, 1),
                                   end |-> Num(1, 2)]>>),
                 SegmentOfText(<<"there">>, Num(1, 2), Num(1, 1))>>}}

InitSrt ==
    /\ HandlerIdle
    /\ RetryIdle
    /\ NormIdle
    /\ FlagsIdle
    /\ MoreIdle
    /\ srtIn \in SrtInputs
    /\ srt = SrtLocals("begin")

\* words, flattened across the segments
SrtWords == FlattenWords(srtIn.segments)

\* if (asrStructured.segments.length) { hasWords ? ... : one cue per segment }
ChooseBuilder ==
    /\ srt.pc = "begin"
    /\ srt' = IF srtIn.segments # << >>
              THEN IF hasWords(srtIn.segments)
                   THEN [srt EXCEPT !.pc = "outer", !.builder = "words"]
                   ELSE [srt EXCEPT !.pc = "fallback", !.builder = "segments",
                                    !.cues = SegmentCues(srtIn.segments)]
              ELSE [srt EXCEPT !.pc = "fallback"]
    /\ UNCHANGED <<handlerVars, retryVars, moreVars, normVars, flagVars, srtIn>>

\* while (i < words.length) { start = ...; j = i; end = ...; parts = []; chars = 0
OuterLoop ==
    /\ srt.pc = "outer"
    /\ srt' = IF srt.i < Len(SrtWords)
              THEN [srt EXCEPT
                      !.pc = "inner",
                      !.start = Or(ToNumber(SrtWords[srt.i + 1].start), Num(0, 1)),
                      !.j = srt.i,
                      !.end = Or(ToNumber(SrtWords[srt.i + 1].end),
                                 Or(ToNumber(SrtWords[srt.i + 1].start), Num(0, 1))),
                      !.parts = << >>,
                      !.chars = 0]
              ELSE [srt EXCEPT !.pc = "fallback"]
    /\ UNCHANGED <<handlerVars, retryVars, moreVars, normVars, flagVars, srtIn>>

\* wStart = Number(w.start) || end
wStart(w) == Or(ToNumber(w.start), srt.end)

\* wEnd = Number(w.end) || wStart
wEnd(w) == Or(ToNumber(w.end), wStart(w))

\* wordLen = String(w.word || '').length + 1
wordLen(w) == StrLen(w.word) + 1

\* The inner loop goes on, and neither break is taken.
TakesWord ==
    /\ srt.j < Len(SrtWords)
    /\ Len(srt.parts) < srtIn.maxWords
    /\ ~(Gt(Minus(wEnd(SrtWords[srt.j + 1]), srt.start), srtIn.maxDur)
         /\ Len(srt.parts) > 0)
    /\ ~(srt.chars + wordLen(SrtWords[srt.j + 1]) > srtIn.maxChars
         /\ Len(srt.parts) > 0)

\* parts.push(w.word); chars += wordLen; end = wEnd; j++
InnerLoop ==
    /\ srt.pc = "inner"
    /\ TakesWord
    /\ srt' = [srt EXCEPT
                 !.parts = Append(srt.parts, SrtWords[srt.j + 1].word),
                 !.chars = srt.chars + wordLen(SrtWords[srt.j + 1]),
                 !.end = wEnd(SrtWords[srt.j + 1]),
                 !.j = srt.j + 1]
    /\ UNCHANGED <<handlerVars, retryVars, moreVars, normVars, flagVars, srtIn>>

\* srtContent += cue; idx++; i = j (of the cues beyond MaxCues only the
\* first MaxCues are kept)
EmitCue ==
    /\ srt.pc = "inner"
    /\ ~TakesWord
    /\ srt' = [srt EXCEPT
                 !.cues = IF Len(srt.cues) < MaxCues
                          THEN Append(srt.cues,
                                      Cue(srt.start, srt.end,
                                          Join(srt.parts, <<" ">>),
                                          srt.i, Len(srt.parts)))
                          ELSE srt.cues,
                 !.i = srt.j,
                 !.pc = "outer"]
    /\ UNCHANGED <<handlerVars, retryVars, moreVars, normVars, flagVars, srtIn>>

\* if (!srtContent) srtContent = segmentTranscriptToSrt(srcText, dur || 1);
\* fs.writeFileSync(srtPath, srtContent)
Fallback ==
    /\ srt.pc = "fallback"
    /\ srt' = IF srt.cues = << >>
              THEN [srt EXCEPT
                      !.pc = "done",
                      !.builder = "proportional",
                      !.totalSeconds = TotalSeconds(srtIn.dur),
                      !.cues = segmentTranscriptToSrt(srtIn.srcText,
                                                      TotalSeconds(srtIn.dur))]
              ELSE [srt EXCEPT !.pc = "done"]
    /\ UNCHANGED <<handlerVars, retryVars, moreVars, normVars, flagVars, srtIn>>

NextSrt ==
    \/ ChooseBuilder
    \/ OuterLoop
    \/ InnerLoop
    \/ EmitCue
    \/ Fallback

SpecSrt == InitSrt /\ [][NextSrt]_vars

\* A step up to the end of the word-grouped loop.
GroupingStep == ChooseBuilder \/ OuterLoop \/ InnerLoop \/ EmitCue

\* The loop is not suspended for ever: it is synchronous code.
SpecSrtLive == SpecSrt /\ WF_vars(GroupingStep)

-----------------------------------------------------------------------------
(* The settings of a job: the upload form, the job data, the environment.  *)

\* The audio part of the merge command in mix mode: the original attenuated
\* to 0.7, the TTS faded in and out, both mixed and normalized.
MixChain ==
    <<"[0:a]volume=0.7[a0]", "[1:a]afade=t=in,afade=t=out[a1]",
      "[a0][a1]amix=inputs=2:duration=shortest", "dynaudnorm[aout]",
      "-map 0:v", "-map [aout]">>

\* The audio part of the merge command otherwise: the TTS input alone.
ReplaceMap == <<"-map 0:v", "-map 1:a">>

MergeAudio_MixUnlessReplace(mode) ==
    IF mode # "replace" THEN MixChain ELSE ReplaceMap

\* if (mergeMode === 'mix') { complexFilter ... } else { -map 1:a }
MergeAudio(mode) == IF mode = "mix" THEN MixChain ELSE ReplaceMap

\* The fields of the multipart form of POST /upload: strings, or missing.
UploadForms ==
    [mergeMode : {Undef, Str(""), Str("mix"), Str("MIX"), Str("replace"),
                  Str("overlay")},
     burnSubtitles : {Undef, Str("true"), Str("TRUE"), Str("false"), Str("")},
     enhance : {Undef, Str("true"), Str("TRUE"), Str("false"), Str("")}]

\* Job data of a producer that passes values that are not strings.
TypedJobData ==
    [mergeMode : {Undef},
     burnSubtitles : {Bool(TRUE), Bool(FALSE), Num(1, 1), Num(0, 1)},
     enhance : {Bool(TRUE), Bool(FALSE), Num(1, 1), Num(0, 1)}]

InitFlags ==
    /\ jobName = "process-video"
    /\ data = [enhance |-> Undef, burnSubtitles |-> Undef, mergeMode |-> Undef]
    /\ env \in [ENHANCE : {Undef, Str("true"), Str("false")},
                BURN_SUBTITLES : {Undef, Str("true"), Str("false")},
                MERGE_MODE : {Undef, Str("mix"), Str("replace")},
                TRANSLATE_PROVIDER : {"mock"},
                TRANSLATE_TARGET : {"id"}]
    /\ JobIdle
    /\ RetryIdle
    /\ NormIdle
    /\ SrtIdle
    /\ MoreIdle
    /\ effective = NotConfigured

\* The variables of the handler but data.
jobVars ==
    <<jobName, env, recVars, diskVars, textVars, mergeVars, progress, pc,
      reports, log, lastProgress, nEvents, audioForAsr, outcome, retval>>

\* POST /upload: the options of the form become the job data.
Upload(form) ==
    /\ effective.stage = "none"
    /\ data' = [mergeMode |-> IF Truthy(form.mergeMode) THEN form.mergeMode
                              ELSE Undef,
                burnSubtitles |-> form.burnSubtitles,
                enhance |-> form.enhance]
    /\ effective' = [effective EXCEPT !.stage = "queued"]
    /\ UNCHANGED <<jobVars, retryVars, moreVars, normVars, srtVars>>

\* queue.add('process-video', jobData) by another producer.
QueueAdd(jobData) ==
    /\ effective.stage = "none"
    /\ data' = jobData
    /\ effective' = [effective EXCEPT !.stage = "queued"]
    /\ UNCHANGED <<jobVars, retryVars, moreVars, normVars, srtVars>>

\* The handler reads its settings, and builds the merge command from them.
Configure ==
    /\ effective.stage = "queued"
    /\ effective' = [stage |-> "configured",
                     enhance |-> enhanceFlag,
                     burnSubtitles |-> burnSubtitles,
                     mergeMode |-> mergeMode,
                     audio |-> MergeAudio(mergeMode)]
    /\ UNCHANGED <<handlerVars, retryVars, moreVars, normVars, srtVars>>

NextFlags ==
    \/ \E form \in UploadForms : Upload(form)
    \/ \E jobData \in TypedJobData : QueueAdd(jobData)
    \/ Configure

SpecFlags == InitFlags /\ [][NextFlags]_vars

-----------------------------------------------------------------------------
(* The upload directory: the names the server stores uploads under and the *)
(* paths the workers derive from them. A file name is a sequence of tokens *)
(* in which an extension (".mp4") is one token.                            *)

MaxUploads == 2

\* The values Date.now() has while the uploads arrive.
Nows == {"1700000000000", "1700000000001"}

\* file.originalname of the uploads.
OriginalNames ==
    { <<"talk", ".mp4">>, <<"talk", ".mov">>, <<"talk", "-audio", ".wav">> }

Extensions == {".mp4", ".mov", ".wav", ".txt", ".mp3", ".srt"}

\* filename: `${Date.now()}-${file.originalname}`
filename(now, originalname) == <<now, "-">> \o originalname

\* path.parse(filePath).name: the base name without its last extension.
baseName(filePath) ==
    IF Len(filePath) > 1 /\ filePath[Len(filePath)] \in Extensions
    THEN SubSeq(filePath, 1, Len(filePath) - 1)
    ELSE filePath

\* What a job writes after its stem, in the order the handler writes it:
\* outAudio, outTranscript, outTranslated, outTts, srtPath, outDubbed.
ArtifactSuffixes ==
    << <<"-audio", ".wav">>, <<"-transcript", ".txt">>,
       <<"-translated", ".txt">>, <<"-tts", ".mp3">>, <<".srt">>,
       <<"-dubbed", ".mp4">> >>

\* path.join(UPLOAD_DIR, `${baseName}${suffix}`) of the k-th artifact.
ArtifactPath(filePath, k) == baseName(filePath) \o ArtifactSuffixes[k]

\* The files of the directory at a path (one at most).
FilesAt(path) == { f \in uploadDir : f.path = path }

\* A write of a path by a job: the file is created or replaced, and a
\* replaced file of another job is recorded.
StoreWrite(path, job, kind) ==
    /\ uploadDir' = (uploadDir \ FilesAt(path))
                       \cup {[path |-> path, job |-> job, kind |-> kind]}
    /\ overwritten' = overwritten \cup
          { [path |-> path, by |-> job, kind |-> kind, of |-> f.job,
             was |-> f.kind] : f \in { g \in FilesAt(path) : g.job # job } }

InitStore ==
    /\ HandlerIdle
    /\ RetryIdle
    /\ NormIdle
    /\ SrtIdle
    /\ FlagsIdle
    /\ StoreIdle
    /\ stalled = 0

\* POST /upload with a file: multer stores it under filename(...) and the
\* handler adds the job with that path.
StoreUpload(now, originalname) ==
    /\ Len(accepted) < MaxUploads
    /\ LET job == Len(accepted) + 1
           filePath == filename(now, originalname)
       IN  /\ StoreWrite(filePath, job, "source")
           /\ accepted' = Append(accepted, [path |-> filePath,
                                            originalname |-> originalname])
           /\ artifacts' = Append(artifacts, 0)
    /\ UNCHANGED <<handlerVars, retryVars, normVars, srtVars, flagVars, stalled>>

\* The worker of a job writes the job's next artifact; the workers of
\* different jobs run side by side.
WriteArtifact(job) ==
    /\ job \in 1..Len(accepted)
    /\ artifacts[job] < Len(ArtifactSuffixes)
    /\ FilesAt(accepted[job].path) # {}
    /\ StoreWrite(ArtifactPath(accepted[job].path, artifacts[job] + 1), job,
                  "artifact")
    /\ artifacts' = [artifacts EXCEPT ![job] = @ + 1]
    /\ UNCHANGED <<handlerVars, retryVars, normVars, srtVars, flagVars,
                   stalled, accepted>>

NextStore ==
    \/ \E now \in Nows, originalname \in OriginalNames :
          StoreUpload(now, originalname)
    \/ \E job \in 1..MaxUploads : WriteArtifact(job)

SpecStore == InitStore /\ [][NextStore]_vars

-----------------------------------------------------------------------------
(* The executions of one job: a worker that dies while the job is active   *)
(* leaves the job to the queue, which moves it back to queued; the next    *)
(* execution finds the files the earlier one wrote.                        *)

MaxStalls == 1

\* One video job with enhancement and mix mode, its source uploaded.
InitRerun ==
    /\ Init
    /\ jobName = "process-video"
    /\ data = [enhance |-> Str("true"), burnSubtitles |-> Undef,
               mergeMode |-> Str("mix")]
    /\ env.TRANSLATE_PROVIDER = "mock"
    /\ files = {"source"}

\* The worker dies: the locals of the handler are lost, the job record and
\* the upload directory stay as they are, the job is queued again.
WorkerCrash ==
    /\ state = "active"
    /\ stalled < MaxStalls
    /\ stalled' = stalled + 1
    /\ state' = "queued"
    /\ pc' = "queued"
    /\ written' = {}
    /\ reports' = << >>
    /\ log' = << >>
    /\ lastProgress' = 0
    /\ nEvents' = 0
    /\ audioForAsr' = "none"
    /\ transcriptText' = << >>
    /\ asrStructured' = NoStructured
    /\ translatedText' = << >>
    /\ synthCalls' = << >>
    /\ outcome' = [c \in Calls |-> "none"]
    /\ ttsDurationSec' = 0
    /\ mergeStarted' = FALSE
    /\ dubbedCreated' = FALSE
    /\ retval' = NoReturn
    /\ UNCHANGED <<cfgVars, retryVars, normVars, srtVars, flagVars, storeVars,
                   returnvalue, failedReason, progress, files, content>>

NextRerun ==
    \/ Next
    \/ WorkerCrash

SpecRerun == InitRerun /\ [][NextRerun]_vars

-----------------------------------------------------------------------------
(* Properties.                                                             *)

StartedStages == {log[i].stage : i \in {k \in 1..Len(log) : log[k].ev = "start"}}

LaterStages == {"enhance", "transcribe", "translate", "synthesize", "merge"}

\* The source has been probed, or is being probed, in this execution.
ProbeStarted == pc = "probe" \/ outcome["probe"] # "none"

\* The merge command has been started in this execution.
MergeCommandStarted == pc = "merge" \/ outcome["merge"] # "none"

\* C1: once the source exists and the audio extraction succeeded, no failure
\* of enhance, transcribe, translate, synthesize, probe or merge fails the job:
\* the handler never throws and the job ends completed.
C1_ToleratedFailuresComplete ==
    outcome["extract"] = "ok" =>
        /\ state # "failed"
        /\ pc # "thrown"
        /\ pc = "done" => state = "completed"

\* A completed job in which every tolerated stage failed.
C1_Witness ==
    /\ state = "completed"
    /\ outcome["extract"] = "ok"
    /\ outcome["enhance"] = "fail"
    /\ outcome["transcribe"] = "fail"
    /\ outcome["translate"] = "fail"
    /\ outcome["synthesize"] = "fail"
    /\ outcome["merge"] = "fail"

\* C2: a process-video job whose source is missing at pickup, or whose audio
\* extraction fails, ends failed; no later stage starts and this execution
\* writes no transcript, translated, tts or dubbed file.
C2_FatalAbort ==
    (/\ jobName = "process-video"
     /\ pc \notin {"queued", "start"}
     /\ "source" \notin files \/ outcome["extract"] = "fail") =>
        /\ state # "completed"
        /\ pc \in {"thrown", "done"}
        /\ pc = "done" => state = "failed" /\ failedReason # << >>
        /\ StartedStages \cap LaterStages = {}
        /\ written \cap {"transcript", "transcriptJson", "translated", "tts", "dubbed"} = {}
        /\ synthCalls = << >>

\* A job failed by an extraction error that left a partial audio file.
C2_Witness ==
    /\ state = "failed"
    /\ outcome["extract"] = "fail"
    /\ "audio" \in written

StageRank(stage) ==
    CASE stage = "extract" -> 1
      [] stage = "enhance" -> 2
      [] stage = "transcribe" -> 3
      [] stage = "translate" -> 4
      [] stage = "synthesize" -> 5
      [] stage = "merge" -> 6
      [] stage = "done" -> 7

\* Enhancement is enabled for this job.
EnhanceRequested ==
    env.ENHANCE = Str("true") \/ data.enhance \in {Str("true"), Bool(TRUE)}

\* The stages that may have resolved right before `stage` starts.
StageBefore(stage) ==
    CASE stage = "extract" -> {}
      [] stage = "enhance" -> {"extract"}
      [] stage = "transcribe" -> IF EnhanceRequested THEN {"enhance"} ELSE {"extract"}
      [] stage = "translate" -> {"transcribe"}
      [] stage = "synthesize" -> {"translate"}
      [] stage = "merge" -> {"synthesize"}
      [] stage = "done" -> {"synthesize", "merge"}

C4_ProgressMonotone ==
    \A i, j \in 1..Len(reports) : i < j => reports[i] <= reports[j]

\* C5: the job record has progress 100 exactly when its state is completed.
C5_HundredIffCompleted == (JobView.progress = 100) <=> (JobView.state = "completed")

\* C6: the job record has a result exactly when its state is completed.
C6_ResultIffCompleted == (JobView.result = "present") <=> (JobView.state = "completed")

\* The text of the transcript file after its header.
TranscriptBody ==
    SubSeq(content["transcript"], Len(TranscriptHeader) + 1, Len(content["transcript"]))

\* After a failed ASR call: translate and synthesize were called and the merge
\* stage was entered (the source probed, and the merge command started once the
\* probe found a video stream and the duration was read).
LaterStagesAttempted ==
    /\ outcome["translate"] # "none"
    /\ Len(synthCalls) = 1
    /\ outcome["synthesize"] # "none"
    /\ "merge" \in StartedStages
    /\ outcome["probe"] # "none"
    /\ (outcome["probe"] = "video" /\ outcome["duration"] = "ok") =>
           outcome["merge"] # "none"

\* C7 as stated: after an ASR failure the job completes, the transcript file
\* starts with "ASR error:" and the later stages are attempted.
C7_AsrFailureFileStartsWithError ==
    (pc = "done" /\ outcome["transcribe"] = "fail") =>
        /\ state = "completed"
        /\ "transcript" \in files
        /\ StartsWith(content["transcript"], AsrErrorPrefix)
        /\ LaterStagesAttempted

\* C7 amended: after an ASR failure the job completes, the transcript file is
\* the TRANSCRIPT header followed by a text starting with "ASR error:", and the
\* later stages are attempted.
C7_AsrFailureTolerated ==
    (pc = "done" /\ outcome["transcribe"] = "fail") =>
        /\ state = "completed"
        /\ "transcript" \in files
        /\ StartsWith(content["transcript"], TranscriptHeader)
        /\ StartsWith(TranscriptBody, AsrErrorPrefix)
        /\ LaterStagesAttempted

\* A completed job whose ASR call failed and whose merge command ran.
C7_Witness ==
    /\ state = "completed"
    /\ outcome["transcribe"] = "fail"
    /\ outcome["probe"] = "video"
    /\ outcome["merge"] = "ok"

\* C8: when translate throws after ASR gave a non-empty transcript, the
\* translated file begins with "TRANSLATION error:" and synthesize is called
\* with exactly the transcript text.
C8_TranslateFailureFallsBack ==
    (/\ outcome["translate"] = "fail"
     /\ outcome["transcribe"] = "ok"
     /\ transcriptText # << >>) =>
        /\ "translated" \in files
        /\ StartsWith(content["translated"], TranslationErrorPrefix)
        /\ synthCalls = <<transcriptText>>

\* Translate threw after ASR returned "hello world".
C8_Witness ==
    /\ outcome["translate"] = "fail"
    /\ outcome["transcribe"] = "ok"
    /\ transcriptText = <<"hello", " ", "world">>
    /\ outcome["synthesize"] # "none"

\* C9 as stated: synthesize receives the translated text if it does not begin
\* with "TRANSLATION error" (an empty one included), else the transcript text.
C9_TtsInputByPrefixOnly ==
    synthCalls # << >> =>
        /\ ~StartsWith(translatedText, TranslationErrorLiteral) =>
               synthCalls[1] = translatedText
        /\ StartsWith(translatedText, TranslationErrorLiteral) =>
               synthCalls[1] = transcriptText

\* C9 amended: synthesize receives the translated text if it is non-empty and
\* does not begin with "TRANSLATION error", else the transcript text.
C9_TtsInputSelection ==
    synthCalls # << >> =>
        /\ (translatedText # << >> /\ ~StartsWith(translatedText, TranslationErrorLiteral)) =>
               synthCalls[1] = translatedText
        /\ (translatedText = << >> \/ StartsWith(translatedText, TranslationErrorLiteral)) =>
               synthCalls[1] = transcriptText

\* An empty translation of a non-empty transcript: the transcript is spoken.
C9_Witness ==
    /\ synthCalls # << >>
    /\ outcome["translate"] = "ok"
    /\ translatedText = << >>
    /\ transcriptText # << >>
    /\ synthCalls[1] = transcriptText

\* C10: after a failed synthesize the marker is written and the merge stage is
\* skipped: no probe of the source, no merge command, no merge.error.txt.
C10_TtsFailureSkipsMerge ==
    outcome["synthesize"] = "fail" =>
        /\ "ttsError" \in files
        /\ ~ProbeStarted
        /\ ~MergeCommandStarted
        /\ "mergeError" \notin written

\* C11: when the probe of the source lists no video stream, merge.skip.txt is
\* written, no merge command is started, no SRT and no merge.error.txt is
\* written, and the job completes with dubbed = null.
C11_NoVideoSkipsMerge ==
    outcome["probe"] = "novideo" =>
        /\ "mergeSkip" \in written
        /\ pc \in {"returned", "done"}
        /\ ~MergeCommandStarted
        /\ outcome["duration"] = "none"
        /\ "srt" \notin written
        /\ "mergeError" \notin written
        /\ "dubbed" \notin written
        /\ retval.kind = "result" /\ retval.value.dubbed = "null"
        /\ pc = "done" =>
               /\ state = "completed"
               /\ returnvalue.defined
               /\ returnvalue.value.dubbed = "null"

\* A completed audio-only job that asked for burnt subtitles.
C11_Witness ==
    /\ state = "completed"
    /\ outcome["probe"] = "novideo"
    /\ outcome["synthesize"] = "ok"
    /\ burnSubtitles
    /\ "mergeSkip" \in files

\* C12: the result of a completed job has a non-null dubbed exactly when the
\* merge command of this execution ended successfully; when the probe or the
\* merge command fails, merge.error.txt is written, dubbed is null and the job
\* still completes.
C12_DubbedIffMergeSucceeded ==
    /\ (state = "completed" /\ returnvalue.defined) =>
           (returnvalue.value.dubbed # "null" <=> outcome["merge"] = "ok")
    /\ (pc = "done" /\ "fail" \in {outcome["probe"], outcome["duration"], outcome["merge"]}) =>
           /\ "mergeError" \in written
           /\ state = "completed"
           /\ returnvalue.defined
           /\ returnvalue.value.dubbed = "null"

\* A completed job whose merge command failed and left a partial output file.
C12_Witness ==
    /\ state = "completed"
    /\ outcome["merge"] = "fail"
    /\ "dubbed" \in files
    /\ returnvalue.value.dubbed = "null"

\* C13: every non-null path in the result of a completed job names a file
\* that exists on disk.
C13_ResultPathsExist ==
    (state = "completed" /\ returnvalue.defined) =>
        \A k \in DOMAIN returnvalue.value :
            returnvalue.value[k] \notin {"null", "absent"} =>
                returnvalue.value[k] \in files

\* C14: the result of a completed job has enhancedAudio exactly when the
\* enhance stage ran in this execution and succeeded.
C14_EnhancedAudioIffEnhanced ==
    (state = "completed" /\ returnvalue.defined) =>
        (returnvalue.value.enhancedAudio # "absent" <=> outcome["enhance"] = "ok")

\* C15: transcribe receives the enhanced audio exactly when enhancement is
\* enabled and enhanceAudio succeeded; when enhanceAudio fails,
\* enhance.error.txt is written and transcribe receives the extracted audio.
C15_AudioForAsr ==
    "transcribe" \in StartedStages =>
        /\ audioForAsr = "audioEnhanced" <=>
               (EnhanceRequested /\ outcome["enhance"] = "ok")
        /\ audioForAsr # "audioEnhanced" => audioForAsr = "audio"
        /\ outcome["enhance"] = "fail" =>
               ("enhanceError" \in written /\ audioForAsr = "audio")
        /\ audioForAsr \in files

\* enhanceAudio failed, left a partial file, and transcribe ran on the
\* extracted audio.
C15_Witness ==
    /\ outcome["enhance"] = "fail"
    /\ "audioEnhanced" \in files
    /\ outcome["transcribe"] = "ok"
    /\ audioForAsr = "audio"

\* C16: a job whose name is not 'process-video' is rejected: no stage runs
\* for it and it does not end completed.
C16_UnknownJobRejected ==
    jobName # "process-video" => (log = << >> /\ state # "completed")

Failures == {i \in 1..Len(history) : ~history[i].ok}

\* C17: retry calls fn at most retries+1 times; no call follows a successful
\* one, whose value is what retry returns; retry throws only after retries+1
\* failed calls, and throws the error of the last of them.
C17_RetryContract ==
    ThroughRetry =>
        /\ Len(history) <= retries(rOpts) + 1
        /\ \A i \in 1..(Len(history) - 1) : ~history[i].ok
        /\ (Len(history) > 0 /\ history[Len(history)].ok) =>
                /\ rpc = "returned"
                /\ settled = [kind |-> "value", v |-> history[Len(history)].v]
        /\ rpc = "returned" => (Len(history) > 0 /\ history[Len(history)].ok)
        /\ rpc = "thrown" =>
                /\ Len(history) = retries(rOpts) + 1
                /\ Failures = 1..Len(history)
                /\ settled = [kind |-> "error", v |-> history[Len(history)].v]
        /\ (Failures = 1..(retries(rOpts) + 1)) => rpc = "thrown"

C17_Witness ==
    /\ rSite = "retry"
    /\ rpc = "thrown"
    /\ Len(history) = 4
    /\ history[1].v = "e1"
    /\ settled = [kind |-> "error", v |-> "e2"]

Opts_3_100_2 ==
    [retries |-> Opt(3, 1), minDelay |-> Opt(100, 1), factor |-> Opt(2, 1)]

\* C18: the n-th sleep of retry lasts floor(minDelay * factor^(n-1)); there is
\* one sleep per failed call except the one retry gives up on; with retries 3,
\* minDelay 100 and factor 2, four failures sleep 100, 200, 400: 700 in all.
C18_BackoffDelays ==
    ThroughRetry =>
        /\ \A n \in 1..Len(slept) :
              /\ n <= retries(rOpts)
              /\ slept[n] * minDelay(rOpts).den * Pow(factor(rOpts).den, n - 1)
                    <= minDelay(rOpts).num * Pow(factor(rOpts).num, n - 1)
              /\ (slept[n] + 1) * minDelay(rOpts).den * Pow(factor(rOpts).den, n - 1)
                    > minDelay(rOpts).num * Pow(factor(rOpts).num, n - 1)
        /\ Len(slept) =
              Cardinality(Failures) - (IF rpc = "thrown" THEN 1 ELSE 0)
        /\ rpc = "thrown" => Len(slept) = retries(rOpts)
        /\ (rpc = "thrown" /\ rOpts = Opts_3_100_2) =>
              (slept = <<100, 200, 400>> /\ SumSeq(slept) = 700)

C18_Witness ==
    /\ rSite = "retry"
    /\ rOpts = Opts_3_100_2
    /\ rpc = "thrown"
    /\ Len(history) = 4
    /\ SumSeq(slept) = 700

\* C19 as stated: with retries 3, minDelay 100 and factor 2, a first success
\* on attempt k (2 <= k <= 4) comes after 100 * 2^(k-2) ms of sleep in all.
C19_CumulativeIsLastDelay ==
    (rOpts = Opts_3_100_2 /\ rpc = "returned" /\ Len(history) \in 2..4) =>
        SumSeq(slept) = 100 * Pow(2, Len(history) - 2)

\* C19: with retries 3, minDelay 100 and factor 2, a first success on attempt
\* k (2 <= k <= 4) comes after 100 * (2^(k-1) - 1) ms of sleep in all (100,
\* 300, 700), the last of the sleeps being 100 * 2^(k-2).
C19_CumulativeDelay ==
    (rOpts = Opts_3_100_2 /\ rpc = "returned" /\ Len(history) \in 2..4) =>
        /\ SumSeq(slept) = 100 * (Pow(2, Len(history) - 1) - 1)
        /\ slept[Len(slept)] = 100 * Pow(2, Len(history) - 2)

C19_Witness ==
    /\ rOpts = Opts_3_100_2
    /\ rpc = "returned"
    /\ Len(history) = 4
    /\ slept = <<100, 200, 400>>

\* C20: every call of the pipeline goes through retry with a budget of more
\* than one attempt, so none of them fails towards the handler after a single
\* failed attempt.
C20_EveryCallRetried ==
    (rSite \in PipelineSites /\ rpc = "thrown") =>
        /\ ThroughRetry
        /\ Len(history) > 1

\* A canonical time: a finite number that is not negative.
CanonicalTime(x) == Finite(x) /\ x.v[1] >= 0

\* C21: normalizeAsrResponse never throws, and every start and end of the
\* segments it returns, and of the words it built, is a finite number >= 0.
C21_NormalizerTotal ==
    norm.done =>
        /\ ~norm.threw
        /\ \A i \in 1..Len(norm.segments) :
              /\ CanonicalTime(norm.segments[i].start)
              /\ CanonicalTime(norm.segments[i].end)
              /\ ~asrResp.hasText =>
                    \A k \in 1..Len(norm.segments[i].words) :
                        /\ CanonicalTime(norm.segments[i].words[k].start)
                        /\ CanonicalTime(norm.segments[i].words[k].end)

IsShapeB(p) == p.kind = "object" /\ ~p.hasText /\ p.hasSegments

Present(x) == x.t # "undefined"

\* start ?? begin ?? seek ?? 0
StartRule(s) ==
    IF Present(Get(s, "start")) THEN s.start
    ELSE IF Present(Get(s, "begin")) THEN s.begin
    ELSE IF Present(Get(s, "seek")) THEN s.seek
    ELSE Num(0, 1)

\* end ?? (start + duration) ?? 0, start being the resolved one
EndRule(s) ==
    IF Present(Get(s, "end")) THEN s.end
    ELSE IF Present(Get(s, "duration")) THEN Plus(StartRule(s), s.duration)
    ELSE Num(0, 1)

\* Every time field of the segment is missing or a number >= 0.
NonNegativeTimes(s) ==
    \A f \in {"start", "begin", "seek", "end", "duration"} :
        ~Present(Get(s, f)) \/ CanonicalTime(Get(s, f))

\* C22: a segment of a Shape B payload whose times are not negative comes out
\* with start = start ?? begin ?? seek ?? 0 and end = end ?? (that start +
\* duration) ?? 0, hence with 0 <= start <= end.
C22_ShapeBTimes ==
    (norm.done /\ ~norm.threw /\ IsShapeB(asrResp)) =>
        \A i \in 1..Len(norm.segments) :
            NonNegativeTimes(asrResp.segments[i]) =>
                /\ norm.segments[i].start = StartRule(asrResp.segments[i])
                /\ norm.segments[i].end = EndRule(asrResp.segments[i])
                /\ Leq(Num(0, 1), norm.segments[i].start)
                /\ Leq(norm.segments[i].start, norm.segments[i].end)

IsShapeC(p) == p.kind = "object" /\ ~p.hasSegments /\ p.hasResults

RECURSIVE FirstTranscripts(_)
\* The transcripts of the first alternatives, in order.
FirstTranscripts(results) ==
    IF results = << >> THEN << >>
    ELSE (IF HasFirstAlternative(Head(results))
             /\ "transcript" \in DOMAIN Head(results).alternatives[1]
          THEN <<Head(results).alternatives[1].transcript>>
          ELSE << >>)
         \o FirstTranscripts(Tail(results))

RECURSIVE FirstWords(_)
\* The words of the first alternatives, in order.
FirstWords(results) ==
    IF results = << >> THEN << >>
    ELSE (IF HasFirstAlternative(Head(results))
             /\ "words" \in DOMAIN Head(results).alternatives[1]
          THEN Head(results).alternatives[1].words
          ELSE << >>)
         \o FirstWords(Tail(results))

\* A time given as { seconds, nanos } with numeric fields, or as a number.
GivenTime(x) ==
    \/ Finite(x)
    \/ x.t = "object" /\ Finite(ToNumber(Or(x.seconds, Num(0, 1))))
                      /\ Finite(ToNumber(Or(x.nanos, Num(0, 1))))

\* seconds + nanos/1e9, or the number itself
TimeRule(x) ==
    IF x.t = "object"
    THEN Rat(ToNumber(Or(x.seconds, Num(0, 1))).v[1] * 1000
                + ToNumber(Or(x.nanos, Num(0, 1))).v[1] \div 1000000, 1000)
    ELSE x

MaxNum(a, b) == IF Leq(a, b) THEN b ELSE a

MaxInt(a, b) == IF a <= b THEN b ELSE a

\* The cues of the word-grouped algorithm, while and after it runs.
WordCues == IF srt.builder = "words" THEN srt.cues ELSE << >>

\* C24: every cue of the word-grouped algorithm lasts at most
\* max(MAX_LINE_DURATION_SEC, duration of its first word), has at most
\* max(MAX_CHARS, len(first word) + 1) characters and at most max(MAX_WORDS, 1)
\* words, and ends where its last included word ends.
C24_CueBounds ==
    \A c \in 1..Len(WordCues) :
        LET cue == WordCues[c]
            firstWord == SrtWords[cue.first + 1]
        IN /\ Leq(Minus(cue.end, cue.start),
                  MaxNum(srtIn.maxDur, Minus(firstWord.end, firstWord.start)))
           /\ StrLen(cue.text) <= MaxInt(srtIn.maxChars, StrLen(firstWord.word) + 1)
           /\ cue.n <= MaxInt(srtIn.maxWords, 1)
           /\ cue.n >= 1
           /\ cue.end = SrtWords[cue.first + cue.n].end

RECURSIVE WordsOfCues(_)
\* The number of words in the cues, taken in index order.
WordsOfCues(cues) ==
    IF cues = << >> THEN 0 ELSE Head(cues).n + WordsOfCues(Tail(cues))

\* The cues hold the words exactly once, in the original order.
CoversWords(cues) ==
    /\ WordsOfCues(cues) = Len(SrtWords)
    /\ \A c \in 1..Len(cues) :
          /\ cues[c].first = WordsOfCues(SubSeq(cues, 1, c - 1))
          /\ cues[c].text =
                Join([k \in 1..cues[c].n |-> SrtWords[cues[c].first + k].word],
                     <<" ">>)

\* C25: for every list of words and every MAX_WORDS, MAX_LINE_DURATION_SEC and
\* MAX_CHARS the word-grouped loop terminates, every cue has at least one
\* word, and the cues hold every word exactly once in the original order.
C25_GroupingTerminates ==
    <>(/\ srt.pc \in {"fallback", "done"}
       /\ \A c \in 1..Len(WordCues) : WordCues[c].n >= 1
       /\ srt.builder = "words" => CoversWords(srt.cues))

\* Some segment of the transcript carries word timing.
WordTiming ==
    \E k \in 1..Len(srtIn.segments) :
        srtIn.segments[k].hasWords /\ srtIn.segments[k].words # << >>

\* C26: the cues are built word-grouped if the segments carry word timing (in
\* any segment), else one per segment if there are segments, else by the
\* proportional algorithm with totalSeconds = max(probed duration, 1).
C26_BuilderChoice ==
    srt.pc = "done" =>
        IF WordTiming THEN srt.builder = "words"
        ELSE IF srtIn.segments # << >> THEN srt.builder = "segments"
        ELSE /\ srt.builder = "proportional"
             /\ srt.totalSeconds = MaxNum(srtIn.dur, Num(1, 1))

\* The cues of the proportional algorithm.
ProportionalRun == srt.pc = "done" /\ srt.builder = "proportional"

\* C27: the cues of the proportional algorithm are laid end to end from 0,
\* cue i lasts totalSeconds * len(pi) / sum of len(pj), and the last cue ends
\* at totalSeconds; the durations are in the ratio of the sentence lengths.
C27_ProportionalCues ==
    (ProportionalRun /\ srt.cues # << >>) =>
        LET cues == srt.cues
            total == TotalChars([k \in 1..Len(cues) |-> cues[k].text])
            d(k) == Minus(cues[k].end, cues[k].start)
            len(k) == Num(StrLen(cues[k].text), 1)
        IN /\ cues[1].start = Num(0, 1)
           /\ \A k \in 2..Len(cues) : cues[k].start = cues[k - 1].end
           /\ \A k \in 1..Len(cues) :
                 Times(d(k), Num(total, 1)) = Times(srt.totalSeconds, len(k))
           /\ cues[Len(cues)].end = srt.totalSeconds
           /\ \A k, m \in 1..Len(cues) :
                 Times(d(k), len(m)) = Times(d(m), len(k))

C27_Witness ==
    /\ ProportionalRun
    /\ srt.totalSeconds = Num(10, 1)
    /\ Len(srt.cues) = 3
    /\ srt.cues[1].end = Num(5, 4)
    /\ srt.cues[2].end = Num(35, 6)
    /\ srt.cues[3].end = Num(10, 1)

Configured == effective.stage = "configured"

\* C28: a flag carried by the job data decides the setting, whatever the
\* environment default: enhance and burnSubtitles submitted off are off and
\* submitted on are on, a submitted mergeMode is the merge mode.
C28_JobDataOverridesEnv ==
    Configured =>
        /\ data.enhance \in {Str("false"), Bool(FALSE)} => ~effective.enhance
        /\ data.enhance \in {Str("true"), Bool(TRUE)} => effective.enhance
        /\ data.burnSubtitles \in {Str("false"), Bool(FALSE)} =>
              ~effective.burnSubtitles
        /\ data.burnSubtitles \in {Str("true"), Bool(TRUE)} =>
              effective.burnSubtitles
        /\ Truthy(data.mergeMode) =>
              effective.mergeMode = ToLowerCase(data.mergeMode.v)

\* "true" ignoring case, or a value that is not a string and not falsy.
SubmittedTrue(x) ==
    IF x.t = "string" THEN ToLowerCase(x.v) = "true" ELSE Truthy(x)

\* C29: with no environment default, enhance and burnSubtitles are each on
\* exactly when the submitted value is "true" ignoring case or a non-string
\* value that is not falsy.
C29_FlagParsing ==
    (Configured /\ env.ENHANCE = Undef /\ env.BURN_SUBTITLES = Undef) =>
        /\ effective.enhance = SubmittedTrue(data.enhance)
        /\ effective.burnSubtitles = SubmittedTrue(data.burnSubtitles)

\* The merge mode in force before lower-casing: the job's, else the
\* environment's, else replace.
RawMergeMode ==
    IF Truthy(data.mergeMode) THEN data.mergeMode.v
    ELSE IF Truthy(env.MERGE_MODE) THEN env.MERGE_MODE.v
    ELSE "replace"

\* C30: the merge command has the mix chain exactly when the merge mode in
\* force, lower-cased, is "mix"; with every other value it takes its audio
\* from the TTS input alone, as with replace.
C30_MixOnlyForMix ==
    Configured =>
        /\ effective.audio = MixChain <=> ToLowerCase(RawMergeMode) = "mix"
        /\ effective.audio # MixChain => effective.audio = ReplaceMap

C30_Witness ==
    /\ Configured
    /\ data.mergeMode = Str("overlay")
    /\ env.MERGE_MODE = Str("mix")
    /\ effective.audio = ReplaceMap


\* The stem of an accepted job, and the paths it writes.
Stem(job) == baseName(accepted[job].path)

ArtifactPaths(job) ==
    { ArtifactPath(accepted[job].path, k) : k \in 1..Len(ArtifactSuffixes) }

\* C31: any two distinct accepted uploads have distinct stems, no two jobs
\* write the same artifact path, and no write of a job replaces the source
\* or an artifact of another job.
C31_DistinctStems ==
    /\ \A i, j \in 1..Len(accepted) :
          i # j => /\ Stem(i) # Stem(j)
                   /\ ArtifactPaths(i) \cap ArtifactPaths(j) = {}
                   /\ accepted[i].path \notin ArtifactPaths(j)
    /\ overwritten = {}

\* The words of a text: its tokens but the white space.
TextWords(text) == Range(text) \ {" ", "\n"}

\* C32: when the SRT file is written, the words of every cue are words of
\* srcText, the text selected by the rule of the TTS input, whichever builder
\* made the cues.
C32_CuesFromSelectedText ==
    srt.pc = "done" =>
        \A k \in 1..Len(srt.cues) :
            TextWords(srt.cues[k].text) \subseteq TextWords(srtIn.srcText)

\* The word timings an adapter put into its payload.
SuppliedWords(p) == IF "words" \in DOMAIN p THEN p.words ELSE << >>

\* C33: a payload of an ASR adapter is normalized to the adapter's transcript
\* text, with segments that carry the adapter's word timings when it
\* supplied any.
C33_AdapterPayloadsNormalized ==
    norm.done /\ asrResp \in AdapterPayloads =>
        /\ ~norm.threw
        /\ norm.text = asrResp.text
        /\ SuppliedWords(asrResp) # << >> =>
              FlattenWords(norm.segments) = SuppliedWords(asrResp)

\* C34: in every execution of a job, the result has a dubbed path only if
\* synthesize succeeded in that execution, and a merge that succeeds read a
\* TTS file this execution wrote.
C34_DubbedNeedsOwnTts ==
    /\ (state = "completed" /\ returnvalue.defined
        /\ returnvalue.value.dubbed # "null") =>
           outcome["synthesize"] = "ok"
    /\ outcome["merge"] = "ok" => "tts" \in written


====
